---------------------------- MODULE Spec2Model ----------------------------
(***************************************************************************)
(* Phone-number-to-contact resolution of the WhatsApp analytics -> CRM     *)
(* sync (HubSpot and Zoho).  A JavaScript string is modelled as the        *)
(* sequence of its characters (one-character strings), so that slicing,    *)
(* replacing and digit-stripping are computed and not assumed.             *)
(***************************************************************************)
EXTENDS Integers, Sequences, FiniteSets, TLC

(***************************************************************************)
(* Strings                                                                 *)
(***************************************************************************)
Digits == {"0", "1", "2", "3", "4", "5", "6", "7", "8", "9"}

\* a non-string entry of the phone list (typeof phone !== 'string')
JsNull == <<"null">>
\* the value of a missing key
JsUndefined == << "undefined" >>

EmptyString == <<>>

\* other values that are not strings: the number 42, and an array (tagged, with
\* its single element)
JsNumber == <<"number", "42">>
JsArray(element) == <<"array", element>>
IsJsArray(v) == Len(v) = 2 /\ v[1] = "array"

\* typeof v
TypeOf(v) ==
    CASE v = JsNull -> "object"
      [] v = JsNumber -> "number"
      [] IsJsArray(v) -> "object"
      [] OTHER -> "string"

\* !v
Falsy(v) == v = JsNull \/ v = EmptyString

\* `${v}`: an array of one element prints as that element
TemplateLiteral(v) == IF IsJsArray(v) THEN v[2] ELSE v

\* String.prototype.includes(ch)
Includes(s, ch) == \E k \in 1..Len(s) : s[k] = ch

\* String.prototype.startsWith(p)
StartsWith(s, p) == Len(p) <= Len(s) /\ SubSeq(s, 1, Len(p)) = p

\* String.prototype.slice(from) with a 0-based index
SliceFrom(s, from) == SubSeq(s, from + 1, Len(s))

\* String.prototype.slice(0, to)
SliceTo(s, to) == SubSeq(s, 1, IF to < Len(s) THEN to ELSE Len(s))

\* s.replace(/[chars]/g, with): every character of the class is replaced
RECURSIVE ReplaceAll(_, _, _)
ReplaceAll(s, chars, with) ==
    IF s = <<>> THEN <<>>
    ELSE (IF Head(s) \in chars THEN with ELSE <<Head(s)>>)
         \o ReplaceAll(Tail(s), chars, with)

\* s.replace('c', with): only the first occurrence is replaced
\* variant: every occurrence is replaced, as with a /g pattern
ReplaceFirst_Global(s, ch, with) == ReplaceAll(s, {ch}, with)

RECURSIVE ReplaceFirst(_, _, _)
ReplaceFirst(s, ch, with) ==
    IF s = <<>> THEN <<>>
    ELSE IF Head(s) = ch THEN with \o Tail(s)
    ELSE <<Head(s)>> \o ReplaceFirst(Tail(s), ch, with)

\* s.replace(/\D/g, '')
DigitsOnly(s) == SelectSeq(s, LAMBDA ch : ch \in Digits)

\* Set.prototype.add on an insertion-ordered set
\* variant: an array push, which keeps duplicates
SetAdd_Push(valueSet, v) == Append(valueSet, v)

SetAdd(valueSet, v) ==
    IF \E k \in 1..Len(valueSet) : valueSet[k] = v THEN valueSet
    ELSE Append(valueSet, v)

RECURSIVE SetAddAll(_, _)
SetAddAll(valueSet, vs) ==
    IF vs = <<>> THEN valueSet
    ELSE SetAddAll(SetAdd(valueSet, Head(vs)), Tail(vs))

(***************************************************************************)
(* The phone-parsing primitive (libphonenumber-js), as the table of its    *)
(* answers on the numbers used here; every other string does not parse.    *)
(***************************************************************************)
NoParse == [ok |-> FALSE]

Parsed(cc, nn, ctry, intl, natl) ==
    [ok |-> TRUE, countryCallingCode |-> cc, nationalNumber |-> nn,
     country |-> ctry, number |-> <<"+">> \o cc \o nn,
     INTERNATIONAL |-> intl, NATIONAL |-> natl]

UsRaw == <<"1","4","1","5","5","5","5","2","6","7","1">>
InRaw == <<"9","1","9","8","7","6","5","4","3","2","1","0">>
Br11Raw == <<"5","5","1","1","9","8","7","6","5","4","3","2","1">>
Br10Raw == <<"5","5","1","1","8","7","6","5","4","3","2","1">>
\* a Mexican number, +52 55 1234 5678
MxRaw == <<"5","2","5","5","1","2","3","4","5","6","7","8">>
\* a chat identifier that is not a number (status@broadcast)
StatusRaw == <<"s","t","a","t","u","s">>

parsePhoneNumberFromString(s) ==
    CASE s = <<"+">> \o UsRaw ->
           Parsed(<<"1">>, <<"4","1","5","5","5","5","2","6","7","1">>, "US",
                  <<"+","1"," ","4","1","5"," ","5","5","5"," ","2","6","7","1">>,
                  <<"(","4","1","5",")"," ","5","5","5","-","2","6","7","1">>)
      [] s = <<"+">> \o InRaw ->
           Parsed(<<"9","1">>, <<"9","8","7","6","5","4","3","2","1","0">>, "IN",
                  <<"+","9","1"," ","9","8","7","6","5"," ","4","3","2","1","0">>,
                  <<"0","9","8","7","6","5"," ","4","3","2","1","0">>)
      [] s = <<"+">> \o Br11Raw ->
           Parsed(<<"5","5">>, <<"1","1","9","8","7","6","5","4","3","2","1">>, "BR",
                  <<"+","5","5"," ","1","1"," ","9","8","7","6","5"," ","4","3","2","1">>,
                  <<"(","1","1",")"," ","9","8","7","6","5","-","4","3","2","1">>)
      [] s = <<"+">> \o Br10Raw ->
           Parsed(<<"5","5">>, <<"1","1","8","7","6","5","4","3","2","1">>, "BR",
                  <<"+","5","5"," ","1","1"," ","8","7","6","5"," ","4","3","2","1">>,
                  <<"(","1","1",")"," ","8","7","6","5","-","4","3","2","1">>)
      [] s = <<"+">> \o MxRaw ->
           Parsed(<<"5","2">>, <<"5","5","1","2","3","4","5","6","7","8">>, "MX",
                  <<"+","5","2"," ","5","5"," ","1","2","3","4"," ","5","6","7","8">>,
                  <<"5","5"," ","1","2","3","4"," ","5","6","7","8">>)
      \* the legacy mobile form, parsed as the source's examples show it
      [] s = <<"+","5","2","1">> \o SubSeq(MxRaw, 3, 12) ->
           Parsed(<<"5","2">>, <<"1","5","5","1","2","3","4","5","6","7","8">>, "MX",
                  <<"+","5","2"," ","1"," ","5","5"," ","1","2","3","4"," ","5","6","7","8">>,
                  <<"1"," ","5","5"," ","1","2","3","4"," ","5","6","7","8">>)
      [] OTHER -> NoParse

(***************************************************************************)
(* generatePhoneNumberVariations and the per-country heuristics            *)
(***************************************************************************)
addBrazilianFormats(valueSet, parsedNumber, countryCode, nationalNumber) ==
    IF Len(nationalNumber) = 10
    THEN LET areaCode == SliceTo(nationalNumber, 2)
             localNumber == SliceFrom(nationalNumber, 2)
             numberWithNinthDigit == areaCode \o <<"9">> \o localNumber
             brParsedWithNinth ==
                 parsePhoneNumberFromString(<<"+">> \o countryCode \o numberWithNinthDigit)
         IN  IF brParsedWithNinth.ok
             THEN SetAddAll(valueSet, << brParsedWithNinth.number,
                                         brParsedWithNinth.nationalNumber,
                                         brParsedWithNinth.INTERNATIONAL,
                                         brParsedWithNinth.NATIONAL >>)
             ELSE valueSet
    ELSE valueSet

\* the legacy form +52 1 [number]
addMexicanFormats(valueSet, parsedNumber, countryCode, nationalNumber) ==
    LET numberWithLegacy1 == <<"+">> \o countryCode \o <<"1">> \o nationalNumber
        mxParsedWithLegacy1 == parsePhoneNumberFromString(numberWithLegacy1)
        nationalNumberWithout1 == SliceFrom(nationalNumber, 1)
    IN  IF mxParsedWithLegacy1.ok
        THEN SetAddAll(valueSet, << mxParsedWithLegacy1.number,
                                    mxParsedWithLegacy1.nationalNumber,
                                    <<"5","2","1">> \o nationalNumber,
                                    <<"5","2">> \o nationalNumberWithout1,
                                    <<"+","5","2">> \o nationalNumberWithout1,
                                    nationalNumberWithout1,
                                    mxParsedWithLegacy1.INTERNATIONAL,
                                    mxParsedWithLegacy1.NATIONAL >>)
        ELSE valueSet

addArgentinianFormats(valueSet, parsedNumber, countryCode, nationalNumber) ==
    LET arParsedWith9 ==
            parsePhoneNumberFromString(<<"+">> \o countryCode \o <<"9">> \o nationalNumber)
        with9 == IF arParsedWith9.ok
                 THEN SetAddAll(valueSet, << arParsedWith9.number,
                                             arParsedWith9.nationalNumber,
                                             arParsedWith9.INTERNATIONAL,
                                             arParsedWith9.NATIONAL >>)
                 ELSE valueSet
        numberWithout15 == SliceFrom(nationalNumber, 2)
    IN  IF StartsWith(nationalNumber, <<"1","5">>)
        THEN SetAddAll(with9, << <<"+">> \o countryCode \o numberWithout15,
                                 <<"+">> \o countryCode \o <<"9">> \o numberWithout15,
                                 numberWithout15 >>)
        ELSE with9

addColombianFormats(valueSet, parsedNumber, countryCode, nationalNumber) ==
    IF Len(nationalNumber) = 10
    THEN LET areaCode == SliceTo(nationalNumber, 3)
             localNumber == SliceFrom(nationalNumber, 3)
             carrierCodes == << <<"1">>, <<"2">>, <<"3">>, <<"4">>, <<"5">> >>
             withCarrier(c) == areaCode \o carrierCodes[c] \o localNumber
         IN  SetAddAll(valueSet,
                 [k \in 1..10 |->
                     IF k % 2 = 1 THEN <<"+">> \o countryCode \o withCarrier((k + 1) \div 2)
                     ELSE withCarrier(k \div 2)])
    ELSE valueSet

addVenezuelanFormats(valueSet, parsedNumber, countryCode, nationalNumber) ==
    IF Len(nationalNumber) = 7
    THEN LET commonAreaCodes == << <<"2","1","2">>, <<"4","1","4">>, <<"4","1","6">>,
                                   <<"4","2","4">>, <<"4","2","6">> >>
         IN  SetAddAll(valueSet,
                 [k \in 1..10 |->
                     IF k % 2 = 1
                     THEN <<"+">> \o countryCode \o commonAreaCodes[(k + 1) \div 2]
                              \o nationalNumber
                     ELSE commonAreaCodes[k \div 2] \o nationalNumber])
    ELSE valueSet

addIvoryCoastFormats(valueSet, parsedNumber, countryCode, nationalNumber) ==
    SetAdd(valueSet, <<"5">> \o nationalNumber)

RECURSIVE addIndonesianAreaCodes(_, _, _)
addIndonesianAreaCodes(valueSet, majorAreaCodes, nationalNumber) ==
    IF majorAreaCodes = << >> THEN valueSet
    ELSE LET areaCode == Head(majorAreaCodes)
             withoutAreaCode == SliceFrom(nationalNumber, Len(areaCode))
             added == IF StartsWith(nationalNumber, areaCode)
                      THEN SetAddAll(valueSet, << withoutAreaCode,
                                                  <<"0">> \o areaCode \o withoutAreaCode >>)
                      ELSE valueSet
         IN  addIndonesianAreaCodes(added, Tail(majorAreaCodes), nationalNumber)

addIndonesianFormats(valueSet, parsedNumber, countryCode, nationalNumber) ==
    LET withZero == IF ~StartsWith(nationalNumber, <<"0">>)
                    THEN SetAdd(valueSet, <<"0">> \o nationalNumber)
                    ELSE valueSet
        majorAreaCodes == << <<"2","1">>, <<"2","2">>, <<"2","4">>, <<"3","1">>,
                             <<"3","4","1">>, <<"3","6","1">> >>
    IN  addIndonesianAreaCodes(withZero, majorAreaCodes, nationalNumber)

addIndianFormats(valueSet, parsedNumber, countryCode, nationalNumber) ==
    IF Len(nationalNumber) = 10
    THEN LET mobilePrefix == SliceTo(nationalNumber, 4)
             remaining == SliceFrom(nationalNumber, 4)
         IN  SetAddAll(valueSet, << <<"0">> \o nationalNumber,
                                    mobilePrefix \o <<" ">> \o remaining >>)
    ELSE valueSet

addCommonInternationalFormats(valueSet, parsedNumber, countryCode, nationalNumber) ==
    LET formatted == parsedNumber.NATIONAL
        intlFormatted == parsedNumber.INTERNATIONAL
        s1 == IF Includes(formatted, "(")
              THEN SetAdd(valueSet, ReplaceAll(formatted, {"(", ")"}, <<>>))
              ELSE valueSet
    IN  SetAddAll(s1, << ReplaceAll(formatted, {" ", "-"}, <<>>),
                         ReplaceFirst(intlFormatted, "+", <<>>),
                         ReplaceAll(intlFormatted, {" ", "-"}, <<>>) >>)

addCountrySpecificFormats(valueSet, parsedNumber, countryCode, nationalNumber) ==
    CASE parsedNumber.country = "BR" ->
           addBrazilianFormats(valueSet, parsedNumber, countryCode, nationalNumber)
      [] parsedNumber.country = "MX" ->
           addMexicanFormats(valueSet, parsedNumber, countryCode, nationalNumber)
      [] parsedNumber.country = "AR" ->
           addArgentinianFormats(valueSet, parsedNumber, countryCode, nationalNumber)
      [] parsedNumber.country = "CO" ->
           addColombianFormats(valueSet, parsedNumber, countryCode, nationalNumber)
      [] parsedNumber.country = "VE" ->
           addVenezuelanFormats(valueSet, parsedNumber, countryCode, nationalNumber)
      [] parsedNumber.country = "CI" ->
           addIvoryCoastFormats(valueSet, parsedNumber, countryCode, nationalNumber)
      [] parsedNumber.country = "ID" ->
           addIndonesianFormats(valueSet, parsedNumber, countryCode, nationalNumber)
      [] parsedNumber.country = "IN" ->
           addIndianFormats(valueSet, parsedNumber, countryCode, nationalNumber)
      [] OTHER ->
           addCommonInternationalFormats(valueSet, parsedNumber, countryCode, nationalNumber)

addHubSpotSpecificFormats(valueSet, parsedNumber, countryCode, nationalNumber) ==
    LET nationalFormatted == parsedNumber.NATIONAL
    IN  SetAddAll(valueSet, << ReplaceAll(nationalFormatted, {"-"}, <<".">>),
                               ReplaceAll(nationalFormatted, {" ", "-"}, <<"_">>),
                               countryCode \o nationalNumber,
                               DigitsOnly(parsedNumber.INTERNATIONAL) >>)

\* phone.includes("+") ? phone : `+${phone}`; Array.prototype.includes compares
\* whole elements
phoneNumOf(phone) ==
    IF IsJsArray(phone)
    THEN (IF phone[2] = <<"+">> THEN phone ELSE <<"+">> \o TemplateLiteral(phone))
    ELSE (IF Includes(phone, "+") THEN phone ELSE <<"+">> \o phone)

\* what the function throws, "none" when it returns: the guard on !phone, and the
\* TypeError of calling a string method (includes, replace) on a value without it
generatePhoneNumberVariationsThrows(phone) ==
    IF Falsy(phone) THEN "Phone number is required"
    ELSE IF TypeOf(phone) = "number" THEN "TypeError"
    ELSE IF TypeOf(phone) # "string" /\ ~parsePhoneNumberFromString(phoneNumOf(phone)).ok
         THEN "TypeError"
    ELSE "none"

\* the array returned when nothing is thrown
generatePhoneNumberVariations(phone) ==
    LET phoneNum == phoneNumOf(phone)
        parsedNumber == parsePhoneNumberFromString(phoneNum)
        valueSet0 == SetAdd(<<>>, phone)
    IN  IF ~parsedNumber.ok
        THEN SetAdd(valueSet0, ReplaceFirst(phone, "+", <<>>))
        ELSE LET nationalNumber == parsedNumber.nationalNumber
                 countryCode == parsedNumber.countryCallingCode
                 s1 == SetAddAll(valueSet0, << parsedNumber.number,
                                               nationalNumber,
                                               countryCode \o nationalNumber,
                                               parsedNumber.INTERNATIONAL,
                                               parsedNumber.NATIONAL,
                                               <<"0">> \o nationalNumber >>)
                 s2 == IF StartsWith(nationalNumber, <<"0">>)
                       THEN SetAdd(s1, SliceFrom(nationalNumber, 1))
                       ELSE s1
                 s3 == addCountrySpecificFormats(s2, parsedNumber, countryCode, nationalNumber)
             IN  addHubSpotSpecificFormats(s3, parsedNumber, countryCode, nationalNumber)

(***************************************************************************)
(* Inputs: the phone lists handed to a resolution call                     *)
(***************************************************************************)
MaxPhones == 19
MaxZohoPhones == 11
MaxContacts == 2
MaxFailures == 3

\* phone && typeof phone === 'string'
\* variant: the typeof test is missing
IsValidPhone_TruthyOnly(phone) == ~Falsy(phone)

IsValidPhone(phone) == ~Falsy(phone) /\ TypeOf(phone) = "string"

DensePattern == << UsRaw >>
\* 1 + 11 + 11 * 8 = 100 variations after 15 entries, 111 after 16
MixedPattern == << UsRaw, JsNull, StatusRaw, EmptyString, InRaw, InRaw, InRaw,
                   InRaw, InRaw, InRaw, InRaw, InRaw, InRaw, InRaw, InRaw, UsRaw >>
InvalidPattern == << EmptyString, JsNull, JsNumber >>
Patterns == { DensePattern, MixedPattern, InvalidPattern }

PhoneList(pattern, n) == [k \in 1..n |-> pattern[((k - 1) % Len(pattern)) + 1]]

InputLists == { PhoneList(pattern, n) : pattern \in Patterns, n \in 0..MaxPhones }

PhonePool == { UsRaw, InRaw, StatusRaw }

(***************************************************************************)
(* Per-call values that are computed once from the input and never         *)
(* reassigned: phoneToVariationsMap, allPhoneNumberVariations, batches.    *)
(***************************************************************************)
VariationsOf ==
    [phone \in PhonePool \cup { EmptyString, JsNull, JsNumber } |->
        IF generatePhoneNumberVariationsThrows(phone) = "none"
        THEN generatePhoneNumberVariations(phone) ELSE << >>]

RECURSIVE Flatten(_)
Flatten(seqs) == IF seqs = <<>> THEN <<>> ELSE Head(seqs) \o Flatten(Tail(seqs))

\* phoneToVariationsMap after the forEach: keyed by the valid phones only
phoneToVariationsMapOf(phones) ==
    [phone \in { phones[k] : k \in { j \in 1..Len(phones) : IsValidPhone(phones[j]) } }
        |-> VariationsOf[phone]]

\* allPhoneNumberVariations.push(...variations), once per valid entry
allPhoneNumberVariationsOf(phones) ==
    Flatten([k \in 1..Len(phones) |->
                IF IsValidPhone(phones[k]) THEN VariationsOf[phones[k]] ELSE <<>>])

\* for (i = 0; i < array.length; i += chunkSize) chunks.push(array.slice(i, i + chunkSize))
\* variant: the slice ends one element too far, slice(i, i + chunkSize + 1)
chunkArray_SliceTooFar(array, chunkSize) ==
    [b \in 1..((Len(array) + chunkSize - 1) \div chunkSize) |->
        SubSeq(array, (b - 1) * chunkSize + 1,
               IF b * chunkSize + 1 < Len(array) THEN b * chunkSize + 1 ELSE Len(array))]

chunkArray(array, chunkSize) ==
    [b \in 1..((Len(array) + chunkSize - 1) \div chunkSize) |->
        SubSeq(array, (b - 1) * chunkSize + 1,
               IF b * chunkSize < Len(array) THEN b * chunkSize ELSE Len(array))]

HubspotBatchSize == 100
ZohoChunkSize == 5

BatchesOf == [phones \in InputLists |->
                 chunkArray(allPhoneNumberVariationsOf(phones), HubspotBatchSize)]

\* phoneNumbers.slice(chunkStart, chunkEnd) for every chunk index
ZohoChunksOf == [phones \in InputLists |-> chunkArray(phones, ZohoChunkSize)]

(***************************************************************************)
(* The CRM search collaborators: what a search may answer                  *)
(***************************************************************************)
HubspotContact(id, phone, mobilephone) ==
    [id |-> id,
     properties |-> [phone |-> phone, mobilephone |-> mobilephone,
                     hs_searchable_calculated_phone_number |-> EmptyString,
                     hs_searchable_calculated_mobile_number |-> EmptyString,
                     hs_whatsapp_phone_number |-> EmptyString]]

\* phone stored with dashes: equal to no variation, digit-equal to the US national number
ContactDashed ==
    HubspotContact("101", <<"4","1","5","-","5","5","5","-","2","6","7","1">>, EmptyString)
\* phone and mobilephone stored in E.164: equal to a variation of the Indian and
\* of the US number
ContactE164 == HubspotContact("102", <<"+">> \o InRaw, <<"+">> \o UsRaw)
\* the record of id 101 as a later search returns it, with other field values:
\* only hs_whatsapp_phone_number is set, digit-equal to the Indian number
ContactDashedLater ==
    [HubspotContact("101", EmptyString, EmptyString) EXCEPT
        !.properties.hs_whatsapp_phone_number =
            <<"+","9","1"," ","9","8","7","6","5","-","4","3","2","1","0">>]

HubspotContactPool == { ContactDashed, ContactE164, ContactDashedLater }

ZohoContact(id, Phone, Mobile) == [id |-> id, Phone |-> Phone, Mobile |-> Mobile]
ZohoContactPool == { ZohoContact("201", <<"+">> \o UsRaw, EmptyString),
                     ZohoContact("202", EmptyString, <<"0","9","8","7","6","5"," ","4","3","2","1","0">>) }

\* all sequences over S of length at most n
RECURSIVE SeqsUpTo(_, _)
SeqsUpTo(S, n) ==
    IF n = 0 THEN { <<>> }
    ELSE LET shorter == SeqsUpTo(S, n - 1)
         IN  shorter \cup { Append(q, x) : q \in { r \in shorter : Len(r) = n - 1 }, x \in S }

\* a sub-response of a Zoho composite response that carries no contact
\* (status_code other than 200, or an empty data list)
ZohoMiss == [id |-> "none", Phone |-> EmptyString, Mobile |-> EmptyString]

Impls == { "hubspot", "hubspot_refresh", "hubspot_retry", "zoho" }
IsHubspot(version) == version # "zoho"

(***************************************************************************)
(* State of one resolution call and of its caller                          *)
(***************************************************************************)
VARIABLES
    impl,            \* which definition of the resolution function runs
    phoneNumbers,    \* argument
    refreshToken,    \* argument of the version that takes it ("none" = null)
    accessToken,     \* argument, reassigned after a successful refresh
    newTokens,       \* access token returned by the last refresh
    pc,              \* position of the call
    i,               \* loop index over the batches / chunks (1-based)
    retries,         \* retryWithBackoff's counter
    allContacts,     \* contacts pushed so far
    uniqueContacts,  \* allContacts deduplicated by id (assigned after the loop)
    chatIdToContactIdMap,
    result,          \* what the call returned or threw
    inFlight,        \* search requests sent and not yet answered
    failures,        \* failed requests so far
    responses,       \* history: what each successful search returned
    log,             \* history: what the call did to its collaborators, in order
    callerError      \* what processDataToBeSyncedWith* caught

\* State of one direct call of generatePhoneNumberVariations
VARIABLES
    phoneArg,        \* argument (phone)
    generated        \* what the call returned or threw

\* State of one run of handleSync and of the two syncs it starts
VARIABLES
    enabled,         \* ENABLE_HUBSPOT_SYNC, ENABLE_ZOHO_SYNC
    handlerPc,       \* position of handleSync
    syncs,           \* per CRM: the sync's promise and the locals of its resolution call
    syncContacts,    \* per scope: the allContacts array of the resolution call
    httpResponse     \* what res.status(..).json(..) sent

\* State of one direct call of retryWithBackoff
VARIABLES
    retry            \* arguments, locals and position of the call, with its history

\* State of one direct call of updateHubspotContactsBatch / updateZohoContactsBatch
VARIABLES
    update           \* arguments, locals and position of the call, with its history

\* State of one run of syncDataWithHubspot / syncDataWithZoho
VARIABLES
    syncData         \* conversationSummaryArray, position of the run, with its history

\* State of one call of extractDataFromActiveUsers
VARIABLES
    extract          \* arguments, locals and position of the call, with its history

\* State of the matching step of contactExistanceBulkOnHubspot taken on its own
VARIABLES
    matchStep        \* phoneNumbers, uniqueContacts and the map built from them

args == << impl, phoneNumbers, refreshToken >>
tokens == << accessToken, newTokens >>
contacts == << allContacts, uniqueContacts, chatIdToContactIdMap >>
resolution == << args, tokens, pc, i, retries, contacts, result, inFlight, failures,
                 responses, log, callerError >>
generation == << phoneArg, generated >>
handler == << enabled, handlerPc, syncs, syncContacts, httpResponse >>
\* the calls modelled on their own
others == << retry, update, syncData, extract, matchStep >>
\* what a resolution call does not touch
outside == << generation, handler, others >>
vars == << resolution, outside >>

\* no direct call of generatePhoneNumberVariations is under way
NotCalled == [kind |-> "pending", values |-> << >>, error |-> "none"]
GenerationIdle == phoneArg = EmptyString /\ generated = NotCalled

CRMs == { "hubspot", "zoho" }

NoSync == [state |-> "notStarted", reason |-> "none", phoneNumbers |-> << >>,
           pc |-> "start", i |-> 0, chatIdToContactIdMap |-> [phone \in {} |-> phone],
           result |-> [kind |-> "pending", map |-> [phone \in {} |-> phone], status |-> 0],
           heard |-> << >>]

NoResponse == [status |-> 0, message |-> "none",
               results |-> [c \in CRMs |-> "none"],
               errors |-> [defined |-> FALSE, list |-> << >>]]

\* handleSync has not been called
HandlerIdle ==
    /\ enabled = [c \in CRMs |-> FALSE]
    /\ handlerPc = "idle"
    /\ syncs = [c \in CRMs |-> NoSync]
    /\ syncContacts = [c \in CRMs |-> << >>]
    /\ httpResponse = NoResponse

\* retryWithBackoff has not been called
NoRetry == [maxRetries |-> 0, delay |-> 0, retries |-> 0, lastError |-> "none",
            pc |-> "idle", calls |-> 0, attempts |-> << >>, waits |-> << >>,
            outcome |-> [kind |-> "pending", value |-> "none"]]

\* updateHubspotContactsBatch / updateZohoContactsBatch has not been called
NoUpdate == [impl |-> "none", chatData |-> << >>, pc |-> "idle", i |-> 0, retries |-> 0,
             propertiesCreated |-> FALSE, totalUpdated |-> 0, allResults |-> << >>,
             log |-> << >>,
             outcome |-> [kind |-> "pending", error |-> "none", totalProcessed |-> 0,
                          totalUpdated |-> 0, batchesProcessed |-> 0, results |-> << >>]]

\* syncDataWithHubspot / syncDataWithZoho has not been called
NoSyncData == [crm |-> "none", conversationSummaryArray |-> << >>, pc |-> "idle", c |-> 0,
               log |-> << >>, outcome |-> "pending"]

\* extractDataFromActiveUsers has not been called
NoExtract == [batchSize |-> 0, activeUsersWithScalerPlan |-> << >>, pc |-> "idle", i |-> 0,
              allResults |-> << >>, log |-> << >>,
              outcome |-> [kind |-> "pending", conversationSummary |-> << >>]]

\* the matching step has no input yet
NoMatchStep == [phoneNumbers |-> << >>, allContacts |-> << >>, uniqueContacts |-> << >>,
                pc |-> "idle", chatIdToContactIdMap |-> [phone \in {} |-> phone]]

OthersIdle ==
    /\ retry = NoRetry
    /\ update = NoUpdate
    /\ syncData = NoSyncData
    /\ extract = NoExtract
    /\ matchStep = NoMatchStep

batches == BatchesOf[phoneNumbers]
phoneToVariationsMap == phoneToVariationsMapOf(phoneNumbers)

\* chunks = Math.ceil(phoneNumbers.length / chunkSize)
chunks == (Len(phoneNumbers) + ZohoChunkSize - 1) \div ZohoChunkSize

NumChunks == IF IsHubspot(impl) THEN Len(batches) ELSE chunks

\* the phones of Zoho chunk c that get a sub-request: variations.length > 0
compositePhones(c) == SelectSeq(ZohoChunksOf[phoneNumbers][c], IsValidPhone)

Event(ev, chunk, arg, tok) == [ev |-> ev, chunk |-> chunk, arg |-> arg, tok |-> tok]

\* an object without keys ({})
EmptyMap == [phone \in {} |-> phone]

NoResult == [kind |-> "pending", map |-> EmptyMap, status |-> 0]
\* return []
ReturnedArray == [kind |-> "array", map |-> EmptyMap, status |-> 0]
\* return { chatIdToContactIdMap: m }
ReturnedObject(m) == [kind |-> "object", map |-> m, status |-> 0]
\* throw error, with error.response.status = status
Thrown(status) == [kind |-> "thrown", map |-> EmptyMap, status |-> status]

Init ==
    /\ impl \in Impls
    /\ phoneNumbers \in InputLists
    /\ impl = "zoho" => Len(phoneNumbers) <= MaxZohoPhones
    /\ refreshToken \in IF impl = "hubspot_refresh" THEN {"none", "refresh0"} ELSE {"none"}
    /\ accessToken = 0
    /\ newTokens = 0
    /\ pc = "start"
    /\ i = 0
    /\ retries = 0
    /\ allContacts = << >>
    /\ uniqueContacts = << >>
    /\ chatIdToContactIdMap = EmptyMap
    /\ result = NoResult
    /\ inFlight = 0
    /\ failures = 0
    /\ responses = << >>
    /\ log = << >>
    /\ callerError = "none"
    /\ GenerationIdle
    /\ HandlerIdle
    /\ OthersIdle

(***************************************************************************)
(* contactExistanceBulkOnHubspot                                           *)
(***************************************************************************)
\* the forEach calls generatePhoneNumberVariations for every entry that passes
\* the test; what it throws leaves through the outer catch, which re-throws
forEachThrows(phones) ==
    \E k \in 1..Len(phones) :
        IsValidPhone(phones[k]) /\ generatePhoneNumberVariationsThrows(phones[k]) # "none"

\* entry up to the first loop test
HubspotBegin ==
    /\ pc = "start" /\ IsHubspot(impl)
    /\ IF forEachThrows(phoneNumbers)
       THEN /\ result' = Thrown(0)
            /\ pc' = "threw"
            /\ i' = i
       ELSE IF Len(allPhoneNumberVariationsOf(phoneNumbers)) = 0
       THEN /\ result' = ReturnedArray
            /\ pc' = "returned"
            /\ i' = i
       ELSE /\ result' = result
            /\ pc' = "loop"
            /\ i' = 1
    /\ UNCHANGED << outside, args, tokens, retries, contacts, inFlight, failures, responses,
                    log, callerError >>

\* const response = await axios.post(...): the call is suspended until the answer
\* variant: the request is not awaited, the loop goes on to the next batch
AfterSend_NotAwaited(index) == [pc |-> "loop", i |-> index + 1]

AfterSend(index) == [pc |-> "await_search", i |-> index]

\* axios.post(search) for batch i
HubspotSendSearch ==
    /\ pc = "loop" /\ IsHubspot(impl) /\ i <= NumChunks
    /\ inFlight' = inFlight + 1
    /\ retries' = 0
    /\ log' = Append(log, Event("search", i, Len(batches[i]), accessToken))
    /\ pc' = AfterSend(i).pc
    /\ i' = AfterSend(i).i
    /\ UNCHANGED << outside, args, tokens, contacts, result, failures, responses, callerError >>

\* if (i < batches.length - 1) await setTimeout(200), with the 0-based index
DelayAfterSuccess(index, count) == index < count

InterChunkDelayMs == 200

\* allContacts.push(...response.data.results)
\* variant: the results replace the contacts accumulated so far
PushResults_Overwrites(all, results) == results

PushResults(all, results) == all \o results

\* the response arrives: results are pushed, then the inter-batch delay starts
HubspotSearchSucceeds ==
    /\ pc = "await_search" /\ IsHubspot(impl)
    /\ \E results \in SeqsUpTo(HubspotContactPool, MaxContacts - Len(allContacts)) :
          /\ allContacts' = PushResults(allContacts, results)
          /\ responses' = Append(responses, [chunk |-> i, results |-> results])
    /\ inFlight' = inFlight - 1
    /\ IF DelayAfterSuccess(i, NumChunks)
       THEN /\ log' = log \o << Event("ok", i, 0, accessToken),
                                Event("delay", i, InterChunkDelayMs, accessToken) >>
            /\ pc' = "await_delay"
            /\ i' = i
       ELSE /\ log' = Append(log, Event("ok", i, 0, accessToken))
            /\ pc' = "loop"
            /\ i' = i + 1
    /\ UNCHANGED << outside, args, tokens, retries, uniqueContacts, chatIdToContactIdMap, result,
                    failures, callerError >>

\* the timer of the inter-batch delay fires
DelayElapses ==
    /\ pc = "await_delay"
    /\ pc' = "loop"
    /\ i' = i + 1
    /\ UNCHANGED << outside, args, tokens, retries, contacts, result, inFlight, failures,
                    responses, log, callerError >>

\* what the batch's catch block does with a failed request
\* variant: the catch re-throws whatever the error
OnBatchError_AlwaysThrows(version, status, token) == "throw"

\* variant: the refresh is tried for any error, not only for a 401
OnBatchError_RefreshOnAnyError(version, status, token) ==
    IF version = "hubspot_refresh"
    THEN (IF token # "none" THEN "refresh" ELSE "throw")
    ELSE "continue"

OnBatchError(version, status, token) ==
    IF version = "hubspot_refresh" /\ status = 401
    THEN (IF token # "none" THEN "refresh" ELSE "throw")
    ELSE "continue"

\* catch (batchError) { ...; continue }: the batch is skipped, no delay
HubspotSearchFailsSkip ==
    /\ pc = "await_search" /\ impl \in {"hubspot", "hubspot_refresh"}
    /\ failures < MaxFailures
    /\ \E status \in {401, 500} :
          /\ OnBatchError(impl, status, refreshToken) = "continue"
          /\ log' = Append(log, Event("fail", i, status, accessToken))
    /\ inFlight' = inFlight - 1
    /\ failures' = failures + 1
    /\ pc' = "loop"
    /\ i' = i + 1
    /\ UNCHANGED << outside, args, tokens, retries, contacts, result, responses, callerError >>

\* throw batchError: the outer catch logs and rethrows it
SearchFailsThrow ==
    /\ pc = "await_search" /\ impl \in {"hubspot", "hubspot_refresh"}
    /\ failures < MaxFailures
    /\ \E status \in {401, 500} :
          /\ OnBatchError(impl, status, refreshToken) = "throw"
          /\ log' = Append(log, Event("fail", i, status, accessToken))
          /\ result' = Thrown(status)
    /\ inFlight' = inFlight - 1
    /\ failures' = failures + 1
    /\ pc' = "threw"
    /\ UNCHANGED << outside, args, tokens, i, retries, contacts, responses, callerError >>

\* 401 with a refresh token: refreshHubSpotToken(refreshToken) is called
SearchFailsRefresh ==
    /\ pc = "await_search" /\ impl \in {"hubspot", "hubspot_refresh"}
    /\ failures < MaxFailures
    /\ \E status \in {401, 500} :
          /\ OnBatchError(impl, status, refreshToken) = "refresh"
          /\ log' = log \o << Event("fail", i, status, accessToken),
                              Event("refresh", i, 0, accessToken) >>
    /\ inFlight' = inFlight - 1
    /\ failures' = failures + 1
    /\ pc' = "await_refresh"
    /\ UNCHANGED << outside, args, tokens, i, retries, contacts, result, responses, callerError >>

\* the refresh answers: the batch is sent again with the new access token
RefreshSucceeds ==
    /\ pc = "await_refresh"
    /\ newTokens' = newTokens + 1
    /\ inFlight' = inFlight + 1
    /\ log' = log \o << Event("refresh_ok", i, 0, newTokens + 1),
                        Event("search", i, Len(batches[i]), newTokens + 1) >>
    /\ pc' = "await_retry"
    /\ UNCHANGED << outside, args, accessToken, i, retries, contacts, result, failures,
                    responses, callerError >>

\* the refresh fails: catch (refreshError) { throw batchError }
RefreshFails ==
    /\ pc = "await_refresh" /\ failures < MaxFailures
    /\ failures' = failures + 1
    /\ log' = Append(log, Event("refresh_fail", i, 0, accessToken))
    /\ result' = Thrown(401)
    /\ pc' = "threw"
    /\ UNCHANGED << outside, args, tokens, i, retries, contacts, inFlight, responses, callerError >>

\* accessToken = newTokens.access_token, after the re-sent batch was answered
\* variant: the refreshed token is used for the retry only
TokenAfterRetry_Kept(current, refreshed) == current

TokenAfterRetry(current, refreshed) == refreshed

\* the re-sent batch answers: results pushed, accessToken replaced, next batch
RetrySucceeds ==
    /\ pc = "await_retry"
    /\ \E results \in SeqsUpTo(HubspotContactPool, MaxContacts - Len(allContacts)) :
          /\ allContacts' = PushResults(allContacts, results)
          /\ responses' = Append(responses, [chunk |-> i, results |-> results])
    /\ inFlight' = inFlight - 1
    /\ accessToken' = TokenAfterRetry(accessToken, newTokens)
    /\ log' = Append(log, Event("ok", i, 0, newTokens))
    /\ pc' = "loop"
    /\ i' = i + 1
    /\ UNCHANGED << outside, args, newTokens, retries, uniqueContacts, chatIdToContactIdMap,
                    result, failures, callerError >>

\* the re-sent batch fails inside the same try: catch (refreshError) { throw batchError }
RetryFails ==
    /\ pc = "await_retry" /\ failures < MaxFailures
    /\ \E status \in {401, 500} :
          log' = Append(log, Event("fail", i, status, newTokens))
    /\ inFlight' = inFlight - 1
    /\ failures' = failures + 1
    /\ result' = Thrown(401)
    /\ pc' = "threw"
    /\ UNCHANGED << outside, args, tokens, i, retries, contacts, responses, callerError >>

(***************************************************************************)
(* retryWithBackoff(func, maxRetries = 3, delay = 1000), around the search *)
(***************************************************************************)
DefaultMaxRetries == 3
DefaultDelayMs == 1000

RECURSIVE Pow2(_)
Pow2(n) == IF n = 0 THEN 1 ELSE 2 * Pow2(n - 1)

\* if (retries >= maxRetries) throw error
RetriesExhausted(count, maxRetries) == count >= maxRetries

\* delay * Math.pow(2, retries - 1)
\* variant: the delay grows linearly with the number of failures
BackoffDelay_Linear(delay, count) == delay * count

BackoffDelay(delay, count) == delay * Pow2(count - 1)

\* func() failed: either the error is thrown to the batch's catch (which skips
\* the batch) or the backoff delay starts
RetrySearchFails ==
    /\ pc = "await_search" /\ impl = "hubspot_retry" /\ failures < MaxFailures
    /\ inFlight' = inFlight - 1
    /\ failures' = failures + 1
    /\ retries' = retries + 1
    /\ \E status \in {401, 500} :
          IF RetriesExhausted(retries + 1, DefaultMaxRetries)
          THEN /\ log' = Append(log, Event("fail", i, status, accessToken))
               /\ pc' = "loop"
               /\ i' = i + 1
          ELSE /\ log' = log \o << Event("fail", i, status, accessToken),
                                   Event("backoff", i,
                                         BackoffDelay(DefaultDelayMs, retries + 1),
                                         accessToken) >>
               /\ pc' = "await_backoff"
               /\ i' = i
    /\ UNCHANGED << outside, args, tokens, contacts, result, responses, callerError >>

\* the backoff timer fires and func() is called again
BackoffElapses ==
    /\ pc = "await_backoff"
    /\ inFlight' = inFlight + 1
    /\ log' = Append(log, Event("search", i, Len(batches[i]), accessToken))
    /\ pc' = "await_search"
    /\ UNCHANGED << outside, args, tokens, i, retries, contacts, result, failures, responses,
                    callerError >>

(***************************************************************************)
(* ContactMatcher: deduplication and matching after the loop               *)
(***************************************************************************)
\* if (!acc.find(c => c.id === contact.id)) acc.push(contact)
\* variant: a later record of an id overwrites the earlier one
DedupStep_KeepsLast(acc, contact) ==
    IF \E k \in 1..Len(acc) : acc[k].id = contact.id
    THEN [k \in 1..Len(acc) |-> IF acc[k].id = contact.id THEN contact ELSE acc[k]]
    ELSE Append(acc, contact)

DedupStep(acc, contact) ==
    IF \E k \in 1..Len(acc) : acc[k].id = contact.id THEN acc ELSE Append(acc, contact)

\* allContacts.reduce(DedupStep, [])
RECURSIVE Reduce(_, _)
Reduce(acc, list) ==
    IF list = << >> THEN acc ELSE Reduce(DedupStep(acc, Head(list)), Tail(list))

uniqueContactsOf(list) == Reduce(<< >>, list)

\* [phone, mobilephone, ...].filter(Boolean)
contactPhones(contact) ==
    SelectSeq(<< contact.properties.phone,
                 contact.properties.mobilephone,
                 contact.properties.hs_searchable_calculated_phone_number,
                 contact.properties.hs_searchable_calculated_mobile_number,
                 contact.properties.hs_whatsapp_phone_number >>,
              LAMBDA v : v # EmptyString)

\* contactPhone === variation || contactPhone.replace(/\D/g,'') === variation.replace(/\D/g,'')
\* variant: only the exact comparison
PhoneMatches_ExactOnly(contactPhone, variation) == contactPhone = variation

PhoneMatches(contactPhone, variation) ==
    \/ contactPhone = variation
    \/ DigitsOnly(contactPhone) = DigitsOnly(variation)

\* variations.some(variation => contactPhones.some(contactPhone => ...))
ContactMatches(contact, variations) ==
    \E v \in 1..Len(variations) : \E f \in 1..Len(contactPhones(contact)) :
        PhoneMatches(contactPhones(contact)[f], variations[v])

\* uniqueContacts.filter(contact => ...)
\* variant: the filter keeps every contact
matchingContacts_NoFilter(unique, variations) == unique

matchingContacts(unique, variations) ==
    SelectSeq(unique, LAMBDA contact : ContactMatches(contact, variations))

\* matchingContacts[0]
\* variant: the last matching contact is used
SelectedContact_Last(matching) == matching[Len(matching)]

\* variant: the second matching contact is used when there is one
SelectedContact_Second(matching) == matching[IF Len(matching) > 1 THEN 2 ELSE 1]

SelectedContact(matching) == matching[1]

MapEntry(contact) == [contactId |-> contact.id, contact |-> contact]

\* the forEach over phoneNumbers that fills chatIdToContactIdMap
matchPhones(phones, unique) ==
    LET valid == { phones[k] : k \in { j \in 1..Len(phones) : IsValidPhone(phones[j]) } }
        matched == { phone \in valid :
                        matchingContacts(unique, phoneToVariationsMapOf(phones)[phone]) # << >> }
    IN  [phone \in matched |->
            MapEntry(SelectedContact(
                matchingContacts(unique, phoneToVariationsMapOf(phones)[phone])))]

\* the loop is over: deduplicate, match, return { chatIdToContactIdMap }
HubspotMatch ==
    /\ pc = "loop" /\ IsHubspot(impl) /\ i > NumChunks
    /\ uniqueContacts' = uniqueContactsOf(allContacts)
    /\ chatIdToContactIdMap' = matchPhones(phoneNumbers, uniqueContacts')
    /\ result' = ReturnedObject(chatIdToContactIdMap')
    /\ pc' = "returned"
    /\ UNCHANGED << outside, args, tokens, i, retries, allContacts, inFlight, failures,
                    responses, log, callerError >>

(***************************************************************************)
(* contactExistanceBulkOnZoho                                              *)
(***************************************************************************)
ZohoBegin ==
    /\ pc = "start" /\ impl = "zoho"
    /\ IF Len(phoneNumbers) = 0
       THEN /\ result' = ReturnedObject(EmptyMap)
            /\ pc' = "returned"
            /\ i' = i
       ELSE IF forEachThrows(phoneNumbers)
       THEN /\ result' = Thrown(0)
            /\ pc' = "threw"
            /\ i' = i
       ELSE /\ result' = result
            /\ pc' = "loop"
            /\ i' = 1
    /\ UNCHANGED << outside, args, tokens, retries, contacts, inFlight, failures, responses,
                    log, callerError >>

\* if (compositeRequests.length === 0) continue
ZohoSkipChunk ==
    /\ pc = "loop" /\ impl = "zoho" /\ i <= NumChunks
    /\ compositePhones(i) = << >>
    /\ i' = i + 1
    /\ UNCHANGED << outside, args, tokens, pc, retries, contacts, result, inFlight, failures,
                    responses, log, callerError >>

\* axios.post(__composite_requests) with one sub-request per valid phone of the chunk
ZohoSendSearch ==
    /\ pc = "loop" /\ impl = "zoho" /\ i <= NumChunks
    /\ compositePhones(i) # << >>
    /\ inFlight' = inFlight + 1
    /\ log' = Append(log, Event("search", i, Len(compositePhones(i)), accessToken))
    /\ pc' = AfterSend(i).pc
    /\ i' = AfterSend(i).i
    /\ UNCHANGED << outside, args, tokens, retries, contacts, result, failures, responses,
                    callerError >>

\* compositeRequests of a chunk: one sub-request per phone with variations,
\* its criteria built from the variations of that phone
compositeRequests(phoneChunk) ==
    LET withVariations == SelectSeq(phoneChunk, IsValidPhone)
    IN  [k \in 1..Len(withVariations) |-> [criteria |-> VariationsOf[withVariations[k]]]]

\* the key under which the phone at position idx of the chunk is remembered:
\* compositeRequests.length - 1 right after its push (positions count from 1 here)
\* variant: the position of the phone in the chunk is the key
RequestIndex_ChunkPosition(phoneChunk, idx) == idx

RequestIndex(phoneChunk, idx) == Len(SelectSeq(SubSeq(phoneChunk, 1, idx), IsValidPhone))

\* phoneToRequestIndexMap after the forEach over the chunk
phoneToRequestIndexMap(phoneChunk) ==
    LET pushed == { idx \in 1..Len(phoneChunk) : IsValidPhone(phoneChunk[idx]) }
    IN  [key \in { RequestIndex(phoneChunk, idx) : idx \in pushed } |->
            phoneChunk[CHOOSE idx \in pushed : RequestIndex(phoneChunk, idx) = key]]

\* const originalPhone = phoneToRequestIndexMap[idx], for every sub-response
originalPhones(phoneChunk) ==
    [idx \in 1..Len(compositeRequests(phoneChunk)) |->
        IF idx \in DOMAIN phoneToRequestIndexMap(phoneChunk)
        THEN phoneToRequestIndexMap(phoneChunk)[idx] ELSE JsUndefined]

\* chatIdToContactIdMap[originalPhone] = {...} for every sub-response with data
RECURSIVE zohoApply(_, _, _)
zohoApply(map, phones, subResponses) ==
    IF phones = << >> THEN map
    ELSE zohoApply(
             IF Head(subResponses) = ZohoMiss THEN map
             ELSE [phone \in DOMAIN map \cup { Head(phones) } |->
                      IF phone = Head(phones) THEN MapEntry(Head(subResponses))
                      ELSE map[phone]],
             Tail(phones), Tail(subResponses))

\* the composite response arrives: contacts stored and mapped, then the delay
ZohoSearchSucceeds ==
    /\ pc = "await_search" /\ impl = "zoho"
    /\ \E subResponses \in [1..Len(compositePhones(i)) -> ZohoContactPool \cup { ZohoMiss }] :
          LET found == SelectSeq(subResponses, LAMBDA r : r # ZohoMiss)
          IN  /\ Len(allContacts) + Len(found) <= MaxContacts
              /\ allContacts' = PushResults(allContacts, found)
              /\ responses' = Append(responses,
                     [chunk |-> i, results |-> found,
                      requests |-> compositeRequests(ZohoChunksOf[phoneNumbers][i]),
                      subResponses |-> subResponses])
              /\ chatIdToContactIdMap' =
                     zohoApply(chatIdToContactIdMap,
                               originalPhones(ZohoChunksOf[phoneNumbers][i]), subResponses)
    /\ inFlight' = inFlight - 1
    /\ IF DelayAfterSuccess(i, NumChunks)
       THEN /\ log' = log \o << Event("ok", i, 0, accessToken),
                                Event("delay", i, InterChunkDelayMs, accessToken) >>
            /\ pc' = "await_delay"
            /\ i' = i
       ELSE /\ log' = Append(log, Event("ok", i, 0, accessToken))
            /\ pc' = "loop"
            /\ i' = i + 1
    /\ UNCHANGED << outside, args, tokens, retries, uniqueContacts, result, failures, callerError >>

\* catch (chunkError) { ...; continue }
ZohoSearchFails ==
    /\ pc = "await_search" /\ impl = "zoho" /\ failures < MaxFailures
    /\ \E status \in {401, 500} :
          log' = Append(log, Event("fail", i, status, accessToken))
    /\ inFlight' = inFlight - 1
    /\ failures' = failures + 1
    /\ pc' = "loop"
    /\ i' = i + 1
    /\ UNCHANGED << outside, args, tokens, retries, contacts, result, responses, callerError >>

\* return { chatIdToContactIdMap }
ZohoReturn ==
    /\ pc = "loop" /\ impl = "zoho" /\ i > NumChunks
    /\ result' = ReturnedObject(chatIdToContactIdMap)
    /\ pc' = "returned"
    /\ UNCHANGED << outside, args, tokens, i, retries, contacts, inFlight, failures, responses,
                    log, callerError >>

(***************************************************************************)
(* The caller, processDataToBeSyncedWithHubspot / ...WithZoho              *)
(***************************************************************************)
\* result.chatIdToContactIdMap is defined only on the object
ReadsMap(res) == res.kind = "object"

\* Object.keys(result.chatIdToContactIdMap) and the forEach over the chats;
\* Object.keys(undefined) throws a TypeError into the caller's own catch
CallerReadsResult ==
    /\ pc = "returned"
    /\ callerError' = IF ReadsMap(result) THEN "none" ELSE "TypeError"
    /\ pc' = "done"
    /\ UNCHANGED << outside, args, tokens, i, retries, contacts, result, inFlight, failures,
                    responses, log >>

\* catch (error) { ...; chat.contactId = null } for a rejected resolution
CallerCatchesRejection ==
    /\ pc = "threw"
    /\ callerError' = "rejected"
    /\ pc' = "done"
    /\ UNCHANGED << outside, args, tokens, i, retries, contacts, result, inFlight, failures,
                    responses, log >>

Next ==
    \/ HubspotBegin \/ HubspotSendSearch \/ HubspotSearchSucceeds \/ DelayElapses
    \/ HubspotSearchFailsSkip \/ SearchFailsThrow \/ SearchFailsRefresh
    \/ RefreshSucceeds \/ RefreshFails \/ RetrySucceeds \/ RetryFails
    \/ RetrySearchFails \/ BackoffElapses
    \/ HubspotMatch
    \/ ZohoBegin \/ ZohoSkipChunk \/ ZohoSendSearch \/ ZohoSearchSucceeds
    \/ ZohoSearchFails \/ ZohoReturn
    \/ CallerReadsResult \/ CallerCatchesRejection

Spec == Init /\ [][Next]_vars

(***************************************************************************)
(* generatePhoneNumberVariations called on its own, on any value           *)
(***************************************************************************)
MaxStrLen == 4

\* strings without a digit: libphonenumber-js finds no number in them
Unparseable == SeqsUpTo({ "+", "a", "-" }, MaxStrLen)

GenInputs ==
    Unparseable
    \cup { UsRaw, <<"+">> \o UsRaw, InRaw, <<"+">> \o InRaw, Br10Raw, Br11Raw, StatusRaw }
    \cup { <<"+">> \o Br10Raw, <<"+">> \o Br11Raw, MxRaw, <<"+">> \o MxRaw }
    \cup { JsNull, JsNumber, JsArray(UsRaw), JsArray(StatusRaw) }

\* no resolution call is under way
ResolutionIdle ==
    /\ impl = "none" /\ phoneNumbers = << >> /\ refreshToken = "none"
    /\ accessToken = 0 /\ newTokens = 0
    /\ pc = "idle" /\ i = 0 /\ retries = 0
    /\ allContacts = << >> /\ uniqueContacts = << >> /\ chatIdToContactIdMap = EmptyMap
    /\ result = NoResult /\ inFlight = 0 /\ failures = 0
    /\ responses = << >> /\ log = << >> /\ callerError = "none"

GenInit ==
    /\ phoneArg \in GenInputs
    /\ generated = NotCalled
    /\ ResolutionIdle
    /\ HandlerIdle
    /\ OthersIdle

\* let values = Array.from(valueSet); return values
GenerateReturns ==
    /\ generated = NotCalled
    /\ generatePhoneNumberVariationsThrows(phoneArg) = "none"
    /\ generated' = [kind |-> "returned", values |-> generatePhoneNumberVariations(phoneArg),
                     error |-> "none"]
    /\ UNCHANGED << phoneArg, resolution, handler, others >>

\* throw new Error('Phone number is required'), or the TypeError of a missing method
GenerateThrows ==
    /\ generated = NotCalled
    /\ generatePhoneNumberVariationsThrows(phoneArg) # "none"
    /\ generated' = [kind |-> "thrown", values |-> << >>,
                     error |-> generatePhoneNumberVariationsThrows(phoneArg)]
    /\ UNCHANGED << phoneArg, resolution, handler, others >>

GenNext == GenerateReturns \/ GenerateThrows

GenSpec == GenInit /\ [][GenNext]_vars

(***************************************************************************)
(* handleSync: the two syncs started together, each with its own           *)
(* resolution call, joined by Promise.allSettled                           *)
(***************************************************************************)
\* 6 * 11 + 5 * 8 = 106 variations: two batches
MaxSyncPhones == 11
MaxSyncZohoPhones == 6
MaxSyncContacts == 1
MaxSyncFailures == 1

\* conversation.chats.map(chat => chat.chat_id.split('@')[0]): strings only
SyncPattern == << UsRaw, InRaw >>
HubspotSyncLists == { PhoneList(SyncPattern, n) : n \in { 0, MaxSyncPhones } }
ZohoSyncLists == { PhoneList(SyncPattern, n) : n \in { 0, MaxSyncZohoPhones } }

SyncBatchesOf == [phones \in HubspotSyncLists |->
                     chunkArray(allPhoneNumberVariationsOf(phones), HubspotBatchSize)]
SyncChunksOf == [phones \in ZohoSyncLists |-> chunkArray(phones, ZohoChunkSize)]

\* error.message of what extractDataFromActiveUsers may throw
ErrorMessages == { "Request failed with status code 500", "Query failed" }

\* const allContacts = [] is declared inside the function: the array a call
\* pushes to and reads is its own
\* variant: the array is declared once at module level and shared by the calls
Scope_ModuleLevel(crm) == "hubspot"

Scope(crm) == crm

Settled(sync) == sync.state \in { "fulfilled", "rejected" }

SyncInit ==
    /\ enabled \in [CRMs -> BOOLEAN]
    /\ handlerPc = "start"
    /\ syncs = [c \in CRMs |-> NoSync]
    /\ syncContacts = [c \in CRMs |-> << >>]
    /\ httpResponse = NoResponse
    /\ ResolutionIdle
    /\ GenerationIdle
    /\ OthersIdle

\* require('./helper') throws: the handler's catch answers 500
HandleSyncRequireFails ==
    /\ handlerPc = "start"
    /\ httpResponse' = [NoResponse EXCEPT !.status = 500, !.message = "Error in processor"]
    /\ handlerPc' = "responded"
    /\ UNCHANGED << resolution, generation, others, enabled, syncs, syncContacts >>

\* the enabled syncs are called one after the other, each runs up to its first
\* await; without any, the early response
HandleSyncStart ==
    /\ handlerPc = "start"
    /\ syncs' = [c \in CRMs |->
                    IF enabled[c] THEN [syncs[c] EXCEPT !.state = "extract"] ELSE syncs[c]]
    /\ IF \A c \in CRMs : ~enabled[c]
       THEN /\ httpResponse' = [NoResponse EXCEPT
                                   !.status = 200,
                                   !.message = "No CRM syncs enabled",
                                   !.results = [c \in CRMs |-> "disabled"]]
            /\ handlerPc' = "responded"
       ELSE /\ httpResponse' = httpResponse
            /\ handlerPc' = "awaiting"
    /\ UNCHANGED << resolution, generation, others, enabled, syncContacts >>

\* extractDataFromActiveUsers answers: the resolution call of the conversation starts
ExtractReturns(crm) ==
    /\ syncs[crm].state = "extract"
    /\ \E phones \in IF crm = "hubspot" THEN HubspotSyncLists ELSE ZohoSyncLists :
          syncs' = [syncs EXCEPT ![crm] = [@ EXCEPT !.state = "resolve",
                                                    !.phoneNumbers = phones]]
    /\ syncContacts' = [syncContacts EXCEPT ![Scope(crm)] = << >>]
    /\ UNCHANGED << resolution, generation, others, enabled, handlerPc, httpResponse >>

\* extractDataFromActiveUsers throws: process* and sync* re-throw, the promise rejects
ExtractFails(crm) ==
    /\ syncs[crm].state = "extract"
    /\ \E message \in ErrorMessages :
          syncs' = [syncs EXCEPT ![crm] = [@ EXCEPT !.state = "rejected", !.reason = message]]
    /\ UNCHANGED << resolution, generation, others, enabled, handlerPc, syncContacts, httpResponse >>

\* the resolution call returned or threw: the caller reads the map or catches,
\* the update's errors are caught too, the promise fulfils
SyncCompletes(crm) ==
    /\ syncs[crm].state = "resolve"
    /\ syncs[crm].pc \in { "returned", "threw" }
    /\ syncs' = [syncs EXCEPT ![crm] = [@ EXCEPT !.state = "fulfilled"]]
    /\ UNCHANGED << resolution, generation, others, enabled, handlerPc, syncContacts, httpResponse >>

Resolving(crm, at) == syncs[crm].state = "resolve" /\ syncs[crm].pc = at

Other(crm) == IF crm = "hubspot" THEN "zoho" ELSE "hubspot"

\* history: one answer of the search collaborator, and whether the other sync's
\* call was waiting in its inter-chunk delay when it arrived
Heard(crm, ok, results) ==
    [chunk |-> syncs[crm].i, ok |-> ok, results |-> results,
     during |-> syncs[Other(crm)].pc = "await_delay"]

\* contactExistanceBulkOnHubspot(accessToken, phones), entry up to the first loop test
SyncHubspotBegin ==
    /\ Resolving("hubspot", "start")
    /\ LET phones == syncs["hubspot"].phoneNumbers
       IN  syncs' = [syncs EXCEPT !["hubspot"] =
               IF forEachThrows(phones)
               THEN [@ EXCEPT !.result = Thrown(0), !.pc = "threw"]
               ELSE IF Len(allPhoneNumberVariationsOf(phones)) = 0
               THEN [@ EXCEPT !.result = ReturnedArray, !.pc = "returned"]
               ELSE [@ EXCEPT !.pc = "loop", !.i = 1]]
    /\ UNCHANGED << resolution, generation, others, enabled, handlerPc, syncContacts, httpResponse >>

SyncNumChunks(crm) ==
    IF crm = "hubspot" THEN Len(SyncBatchesOf[syncs[crm].phoneNumbers])
    ELSE Len(SyncChunksOf[syncs[crm].phoneNumbers])

syncCompositePhones(c) ==
    SelectSeq(SyncChunksOf[syncs["zoho"].phoneNumbers][c], IsValidPhone)

\* axios.post: the call is suspended until the answer
SyncSendSearch(crm) ==
    /\ Resolving(crm, "loop")
    /\ syncs[crm].i <= SyncNumChunks(crm)
    /\ crm = "zoho" => syncCompositePhones(syncs[crm].i) # << >>
    /\ syncs' = [syncs EXCEPT ![crm] =
                    [@ EXCEPT !.pc = AfterSend(syncs[crm].i).pc,
                              !.i = AfterSend(syncs[crm].i).i]]
    /\ UNCHANGED << resolution, generation, others, enabled, handlerPc, syncContacts, httpResponse >>

\* after a success: the inter-chunk delay, or the next iteration
AfterSuccess(sync, count) ==
    IF DelayAfterSuccess(sync.i, count)
    THEN [sync EXCEPT !.pc = "await_delay"]
    ELSE [sync EXCEPT !.pc = "loop", !.i = sync.i + 1]

SyncHubspotSearchSucceeds ==
    /\ Resolving("hubspot", "await_search")
    /\ \E results \in SeqsUpTo(HubspotContactPool,
                               MaxSyncContacts - Len(syncContacts[Scope("hubspot")])) :
          /\ syncContacts' = [syncContacts EXCEPT ![Scope("hubspot")] =
                                 PushResults(@, results)]
          /\ syncs' = [syncs EXCEPT !["hubspot"] =
                 AfterSuccess([@ EXCEPT !.heard = Append(@, Heard("hubspot", TRUE, results))],
                              SyncNumChunks("hubspot"))]
    /\ UNCHANGED << resolution, generation, others, enabled, handlerPc, httpResponse >>

\* catch (batchError / chunkError): the chunk is skipped
SyncSearchFails(crm) ==
    /\ Resolving(crm, "await_search")
    /\ Len(SelectSeq(syncs[crm].heard, LAMBDA h : ~h.ok)) < MaxSyncFailures
    /\ \E status \in {401, 500} :
          /\ crm = "hubspot" => OnBatchError("hubspot", status, "none") = "continue"
          /\ syncs' = [syncs EXCEPT ![crm] =
                 [@ EXCEPT !.heard = Append(@, Heard(crm, FALSE, << >>)),
                           !.pc = "loop", !.i = @ + 1]]
    /\ UNCHANGED << resolution, generation, others, enabled, handlerPc, syncContacts, httpResponse >>

\* setTimeout(resolve, 200) fires: the awaiting call resumes
SyncDelayElapses(crm) ==
    /\ Resolving(crm, "await_delay")
    /\ syncs' = [syncs EXCEPT ![crm] = [@ EXCEPT !.pc = "loop", !.i = @ + 1]]
    /\ UNCHANGED << resolution, generation, others, enabled, handlerPc, syncContacts, httpResponse >>

SyncHubspotMatch ==
    /\ Resolving("hubspot", "loop")
    /\ syncs["hubspot"].i > SyncNumChunks("hubspot")
    /\ LET map == matchPhones(syncs["hubspot"].phoneNumbers,
                              uniqueContactsOf(syncContacts[Scope("hubspot")]))
       IN  syncs' = [syncs EXCEPT !["hubspot"] =
                        [@ EXCEPT !.chatIdToContactIdMap = map,
                                  !.result = ReturnedObject(map),
                                  !.pc = "returned"]]
    /\ UNCHANGED << resolution, generation, others, enabled, handlerPc, syncContacts, httpResponse >>

\* contactExistanceBulkOnZoho(accessToken, phones, apiDomain), entry
SyncZohoBegin ==
    /\ Resolving("zoho", "start")
    /\ LET phones == syncs["zoho"].phoneNumbers
       IN  syncs' = [syncs EXCEPT !["zoho"] =
               IF Len(phones) = 0
               THEN [@ EXCEPT !.result = ReturnedObject(EmptyMap), !.pc = "returned"]
               ELSE IF forEachThrows(phones)
               THEN [@ EXCEPT !.result = Thrown(0), !.pc = "threw"]
               ELSE [@ EXCEPT !.pc = "loop", !.i = 1]]
    /\ UNCHANGED << resolution, generation, others, enabled, handlerPc, syncContacts, httpResponse >>

SyncZohoSearchSucceeds ==
    /\ Resolving("zoho", "await_search")
    /\ LET phones == syncCompositePhones(syncs["zoho"].i)
       IN  \E subResponses \in [1..Len(phones) -> ZohoContactPool \cup { ZohoMiss }] :
              LET found == SelectSeq(subResponses, LAMBDA r : r # ZohoMiss)
              IN  /\ Len(syncContacts[Scope("zoho")]) + Len(found) <= MaxSyncContacts
                  /\ syncContacts' = [syncContacts EXCEPT ![Scope("zoho")] =
                                         PushResults(@, found)]
                  /\ syncs' = [syncs EXCEPT !["zoho"] =
                         AfterSuccess(
                             [@ EXCEPT !.heard = Append(@, Heard("zoho", TRUE, subResponses)),
                                       !.chatIdToContactIdMap =
                                           zohoApply(@, phones, subResponses)],
                             SyncNumChunks("zoho"))]
    /\ UNCHANGED << resolution, generation, others, enabled, handlerPc, httpResponse >>

SyncZohoReturn ==
    /\ Resolving("zoho", "loop")
    /\ syncs["zoho"].i > SyncNumChunks("zoho")
    /\ syncs' = [syncs EXCEPT !["zoho"] =
                    [@ EXCEPT !.result = ReturnedObject(syncs["zoho"].chatIdToContactIdMap),
                              !.pc = "returned"]]
    /\ UNCHANGED << resolution, generation, others, enabled, handlerPc, syncContacts, httpResponse >>

\* one step of the resolution call of a CRM
ResolutionStep(crm) ==
    \/ crm = "hubspot" /\ (SyncHubspotBegin \/ SyncHubspotSearchSucceeds \/ SyncHubspotMatch)
    \/ crm = "zoho" /\ (SyncZohoBegin \/ SyncZohoSearchSucceeds \/ SyncZohoReturn)
    \/ SyncSendSearch(crm) \/ SyncSearchFails(crm) \/ SyncDelayElapses(crm)

\* Promise.allSettled(syncPromises) resolves once every promise has settled
\* variant: Promise.all, which settles at the first rejection
allSettled_FailFast(promises) ==
    \/ \A c \in DOMAIN promises : promises[c].state = "fulfilled"
    \/ \E c \in DOMAIN promises : promises[c].state = "rejected"

allSettled(promises) == \A c \in DOMAIN promises : Settled(promises[c])

\* results[syncNames.indexOf(..)], or { status: 'disabled' }
SyncResult(crm) ==
    IF ~enabled[crm] THEN [status |-> "disabled", reason |-> "none"]
    ELSE IF Settled(syncs[crm]) THEN [status |-> syncs[crm].state, reason |-> syncs[crm].reason]
    ELSE [status |-> "pending", reason |-> "none"]

CrmLabel(crm) == IF crm = "hubspot" THEN "HubSpot" ELSE "Zoho"

ErrorOf(crm) ==
    IF SyncResult(crm).status = "rejected"
    THEN << [crm |-> CrmLabel(crm), error |-> SyncResult(crm).reason] >>
    ELSE << >>

\* the join resolves: statuses and errors are collected and sent with 200
HandleSyncRespond ==
    /\ handlerPc = "awaiting"
    /\ allSettled([c \in { d \in CRMs : enabled[d] } |-> syncs[c]])
    /\ LET errors == ErrorOf("hubspot") \o ErrorOf("zoho")
       IN  httpResponse' =
               [status |-> 200,
                message |-> "Data sync process completed",
                results |-> [c \in CRMs |-> SyncResult(c).status],
                errors |-> IF Len(errors) > 0
                           THEN [defined |-> TRUE, list |-> errors]
                           ELSE [defined |-> FALSE, list |-> << >>]]
    /\ handlerPc' = "responded"
    /\ UNCHANGED << resolution, generation, others, enabled, syncs, syncContacts >>

SyncNext ==
    \/ HandleSyncRequireFails \/ HandleSyncStart \/ HandleSyncRespond
    \/ \E crm \in CRMs : ExtractReturns(crm)
    \/ \E crm \in CRMs : ExtractFails(crm)
    \/ \E crm \in CRMs : SyncCompletes(crm)
    \/ SyncHubspotBegin \/ SyncHubspotSearchSucceeds \/ SyncHubspotMatch
    \/ SyncZohoBegin \/ SyncZohoSearchSucceeds \/ SyncZohoReturn
    \/ \E crm \in CRMs : SyncSendSearch(crm)
    \/ \E crm \in CRMs : SyncSearchFails(crm)
    \/ \E crm \in CRMs : SyncDelayElapses(crm)

SyncSpec == SyncInit /\ [][SyncNext]_vars

(***************************************************************************)
(* retryWithBackoff called on its own, with any maxRetries and delay       *)
(***************************************************************************)
MaxMaxRetries == 4
RetryDelays == { DefaultDelayMs, 250 }
\* what func() may reject with
RetryErrors == { "E1", "E2" }

Pending == [kind |-> "pending", value |-> "none"]
Resolved(value) == [kind |-> "resolved", value |-> value]
Rejected(error) == [kind |-> "rejected", value |-> error]

\* while (retries < maxRetries) { try { return await func(); } ... }
\* throw lastError || new Error('Max retries reached')
\* the loop test and, if it passes, the call of func() up to its await
EnterLoop(r) ==
    IF r.retries < r.maxRetries
    THEN [r EXCEPT !.calls = @ + 1, !.pc = "await_func"]
    ELSE [r EXCEPT !.pc = "done",
                   !.outcome = Rejected(IF r.lastError # "none" THEN r.lastError
                                        ELSE "Max retries reached")]

RetryInit ==
    /\ retry \in { [NoRetry EXCEPT !.maxRetries = m, !.delay = d, !.pc = "start"] :
                     m \in 0..MaxMaxRetries, d \in RetryDelays }
    /\ update = NoUpdate
    /\ syncData = NoSyncData
    /\ extract = NoExtract
    /\ matchStep = NoMatchStep
    /\ ResolutionIdle
    /\ GenerationIdle
    /\ HandlerIdle

\* retryWithBackoff(func, maxRetries, delay) is called: let retries = 0; let lastError
RetryCalled ==
    /\ retry.pc = "start"
    /\ retry' = EnterLoop(retry)
    /\ UNCHANGED << resolution, generation, handler, update, syncData, extract, matchStep >>

\* func() resolves: return await func()
RetryFuncResolves ==
    /\ retry.pc = "await_func"
    /\ retry' = [retry EXCEPT !.attempts = Append(@, "ok"), !.pc = "done",
                              !.outcome = Resolved("value")]
    /\ UNCHANGED << resolution, generation, handler, update, syncData, extract, matchStep >>

\* func() rejects: lastError = error; retries++; then either throw error or
\* await setTimeout(backoffDelay)
RetryFuncRejects ==
    /\ retry.pc = "await_func"
    /\ \E error \in RetryErrors :
          retry' =
             IF RetriesExhausted(retry.retries + 1, retry.maxRetries)
             THEN [retry EXCEPT !.attempts = Append(@, error), !.lastError = error,
                                !.retries = @ + 1, !.pc = "done",
                                !.outcome = Rejected(error)]
             ELSE [retry EXCEPT !.attempts = Append(@, error), !.lastError = error,
                                !.retries = @ + 1, !.pc = "await_timer",
                                !.waits = Append(@, [after |-> Len(retry.attempts) + 1,
                                                     ms |-> BackoffDelay(retry.delay,
                                                                         retry.retries + 1)])]
    /\ UNCHANGED << resolution, generation, handler, update, syncData, extract, matchStep >>

\* the backoff timer fires: the loop test is made again
RetryTimerFires ==
    /\ retry.pc = "await_timer"
    /\ retry' = EnterLoop(retry)
    /\ UNCHANGED << resolution, generation, handler, update, syncData, extract, matchStep >>

RetryNext == RetryCalled \/ RetryFuncResolves \/ RetryFuncRejects \/ RetryTimerFires

RetrySpec == RetryInit /\ [][RetryNext]_vars

(***************************************************************************)
(* updateHubspotContactsBatch (src/hubspot.js and the version that creates *)
(* missing properties) and updateZohoContactsBatch, called on their own    *)
(***************************************************************************)
\* const batchSize = 100
UpdateBatchSize == 100
MaxUpdateChats == 201
MaxDuplicates == 2
MaxUpdateFailures == 6

UpdateImpls == { "hubspot", "hubspot_props", "zoho" }

Chat(contactId, chat_id, analytics) ==
    [contactId |-> contactId, chat_id |-> chat_id, analytics |-> analytics]

\* u distinct contact ids, the first d of them carried by two chats in a row;
\* the chat at position bad (0 = none) has no analytics object
UpdateChats(u, d, bad) ==
    [k \in 1..(u + d) |->
        Chat(IF k <= 2 * d THEN (k + 1) \div 2 ELSE k - d, k,
             IF k = bad THEN "null" ELSE "object")]

\* the chats the sync passes: every contactId is truthy
UpdateInputs ==
    { UpdateChats(u, d, bad) :
        u \in { 0, 1, UpdateBatchSize, UpdateBatchSize + 1, MaxUpdateChats },
        d \in { 0, MaxDuplicates }, bad \in { 0, 1, UpdateBatchSize + 3 } }

\* if (!acc.find(c => c.contactId === chat.contactId)) acc.push(chat)
\* variant: every chat is pushed
UniqueStep_NoDedup(acc, chat) == Append(acc, chat)

UniqueStep(acc, chat) ==
    IF \E k \in 1..Len(acc) : acc[k].contactId = chat.contactId THEN acc ELSE Append(acc, chat)

\* chatData.reduce(UniqueStep, []): the steps for chatData[from..to], left to
\* right, starting from acc. The range is halved to keep the recursion shallow;
\* the test on Len(left), always true, makes TLC evaluate the first half before
\* it starts the second
RECURSIVE ReduceChats(_, _, _, _)
ReduceChats(acc, chatData, from, to) ==
    IF from > to THEN acc
    ELSE IF from = to THEN UniqueStep(acc, chatData[from])
    ELSE LET mid == (from + to) \div 2
             left == ReduceChats(acc, chatData, from, mid)
         IN  IF Len(left) >= 0 THEN ReduceChats(left, chatData, mid + 1, to) ELSE left

uniqueChatDataOf ==
    [chatData \in UpdateInputs |-> ReduceChats(<< >>, chatData, 1, Len(chatData))]

\* for (i = 0; i < uniqueChatData.length; i += batchSize)
\*     batches.push(uniqueChatData.slice(i, i + batchSize))
UpdateBatchesOf ==
    [chatData \in UpdateInputs |-> chunkArray(uniqueChatDataOf[chatData], UpdateBatchSize)]

\* batch.map(chat => ({ ... chat.analytics.total_messages ... })) throws a TypeError
\* when a chat has no analytics object; the Zoho version replaces it by {}
BatchDataThrows(version, batch) ==
    version # "zoho" /\ \E k \in 1..Len(batch) : batch[k].analytics = "null"

\* what a failed update request answers
UpdateErrors == { "PROPERTY_DOESNT_EXIST", "OTHER" }

\* errorData?.category === 'VALIDATION_ERROR' &&
\*     errorData?.errors?.some(err => err.code === 'PROPERTY_DOESNT_EXIST')
isMissingPropertyError(error) == error = "PROPERTY_DOESNT_EXIST"

UpdateEvent(ev, batch, arg) == [ev |-> ev, batch |-> batch, arg |-> arg]

\* return { totalProcessed: uniqueChatData.length, totalUpdated,
\*          batchesProcessed: batches.length, results: allResults }
UpdateReturned(u) ==
    [kind |-> "returned", error |-> "none",
     totalProcessed |-> Len(uniqueChatDataOf[u.chatData]),
     totalUpdated |-> u.totalUpdated,
     batchesProcessed |-> Len(UpdateBatchesOf[u.chatData]),
     results |-> u.allResults]
\* the outer catch logs and re-throws
UpdateThrown(error) == [NoUpdate.outcome EXCEPT !.kind = "thrown", !.error = error]

updateBatches == UpdateBatchesOf[update.chatData]

UpdateInit ==
    /\ update \in { [NoUpdate EXCEPT !.impl = v, !.chatData = l, !.pc = "start"] :
                      v \in UpdateImpls, l \in UpdateInputs }
    /\ retry = NoRetry
    /\ syncData = NoSyncData
    /\ extract = NoExtract
    /\ matchStep = NoMatchStep
    /\ ResolutionIdle
    /\ GenerationIdle
    /\ HandlerIdle

\* the call: deduplication, batching, then the loop starts
UpdateCalled ==
    /\ update.pc = "start"
    /\ update' = [update EXCEPT !.pc = "loop", !.i = 1]
    /\ UNCHANGED << resolution, generation, handler, retry, syncData, extract, matchStep >>

\* loop test; batchData is built and the request is sent, or the function returns
UpdateLoop ==
    /\ update.pc = "loop"
    /\ update' =
          IF update.i > Len(updateBatches)
          THEN [update EXCEPT !.pc = "done", !.outcome = UpdateReturned(update)]
          ELSE IF BatchDataThrows(update.impl, updateBatches[update.i])
          THEN [update EXCEPT !.pc = "done", !.outcome = UpdateThrown("TypeError")]
          ELSE [update EXCEPT !.pc = "await_update", !.retries = 0,
                              !.log = Append(@, UpdateEvent("request", update.i, "first"))]
    /\ UNCHANGED << resolution, generation, handler, retry, syncData, extract, matchStep >>

\* if (i < batches.length - 1) await setTimeout(200), else the next iteration
AfterBatch(u) ==
    IF DelayAfterSuccess(u.i, Len(UpdateBatchesOf[u.chatData]))
    THEN [u EXCEPT !.pc = "await_delay",
                   !.log = Append(@, UpdateEvent("delay", u.i, InterChunkDelayMs))]
    ELSE [u EXCEPT !.pc = "loop", !.i = @ + 1]

\* allResults.push(response.data); totalUpdated += batch.length
\* variant: the response is pushed but the batch is not counted
Updated_NotCounted(u) ==
    [u EXCEPT !.allResults = Append(@, u.i),
              !.log = Append(@, UpdateEvent("response", u.i, "ok"))]

Updated(u) ==
    [u EXCEPT !.allResults = Append(@, u.i),
              !.totalUpdated = @ + Len(UpdateBatchesOf[u.chatData][u.i]),
              !.log = Append(@, UpdateEvent("response", u.i, "ok"))]

\* the update request (first send or a send of retryWithBackoff) succeeds
UpdateSucceeds ==
    /\ update.pc = "await_update"
    /\ update' = AfterBatch(Updated(update))
    /\ UNCHANGED << resolution, generation, handler, retry, syncData, extract, matchStep >>

FailedRequests == Cardinality({ k \in DOMAIN update.log : update.log[k].ev = "error" })

\* catch (batchError) { ...; continue }: no retry, no delay
UpdateFailsSkip ==
    /\ update.pc = "await_update" /\ update.impl \in { "hubspot", "zoho" }
    /\ FailedRequests < MaxUpdateFailures
    /\ \E error \in UpdateErrors :
          update' = [update EXCEPT !.pc = "loop", !.i = @ + 1,
                                   !.log = Append(@, UpdateEvent("error", update.i, error))]
    /\ UNCHANGED << resolution, generation, handler, retry, syncData, extract, matchStep >>

\* the catch block of the version that creates missing properties
\* variant: the flag propertiesCreated is not looked at
OnUpdateError_IgnoresFlag(u, error) ==
    IF isMissingPropertyError(error)
    THEN [u EXCEPT !.pc = "await_create", !.log = Append(@, UpdateEvent("create", u.i, "call"))]
    ELSE AfterBatch(u)

OnUpdateError(u, error) ==
    IF isMissingPropertyError(error) /\ ~u.propertiesCreated
    THEN [u EXCEPT !.pc = "await_create", !.log = Append(@, UpdateEvent("create", u.i, "call"))]
    ELSE AfterBatch(u)

\* a send inside retryWithBackoff fails: backoff, or the error reaches the catch block
UpdateFailsRetry ==
    /\ update.pc = "await_update" /\ update.impl = "hubspot_props"
    /\ FailedRequests < MaxUpdateFailures
    /\ \E error \in UpdateErrors :
          LET failed == [update EXCEPT !.retries = @ + 1,
                                       !.log = Append(@, UpdateEvent("error", update.i, error))]
          IN  update' =
                 IF RetriesExhausted(failed.retries, DefaultMaxRetries)
                 THEN OnUpdateError(failed, error)
                 ELSE [failed EXCEPT !.pc = "await_backoff",
                          !.log = Append(@, UpdateEvent("backoff", update.i,
                                            BackoffDelay(DefaultDelayMs, failed.retries)))]
    /\ UNCHANGED << resolution, generation, handler, retry, syncData, extract, matchStep >>

\* the backoff timer fires: func() sends the same batchData again
UpdateBackoffElapses ==
    /\ update.pc = "await_backoff"
    /\ update' = [update EXCEPT !.pc = "await_update",
                                !.log = Append(@, UpdateEvent("request", update.i, "backoff"))]
    /\ UNCHANGED << resolution, generation, handler, retry, syncData, extract, matchStep >>

\* whether the batch is re-sent after createHubspotCustomProperties returned:
\* await createHubspotCustomProperties(accessToken); propertiesCreated = true:
\* the returned object is not looked at
ResendAfterCreate(status) == TRUE

\* createHubspotCustomProperties returns { status: true } or { status: false }
\* (it catches every error itself and never throws); the batch is sent again
CreateReturns ==
    /\ update.pc = "await_create"
    /\ \E status \in BOOLEAN :
          LET created == [update EXCEPT !.propertiesCreated = TRUE,
                                        !.log = Append(@, UpdateEvent("created", update.i, status))]
          IN  update' =
                 IF ResendAfterCreate(status)
                 THEN [created EXCEPT !.pc = "await_resend",
                          !.log = Append(@, UpdateEvent("request", update.i, "resend"))]
                 ELSE AfterBatch(created)
    /\ UNCHANGED << resolution, generation, handler, retry, syncData, extract, matchStep >>

\* the re-sent batch succeeds
ResendSucceeds ==
    /\ update.pc = "await_resend"
    /\ update' = AfterBatch(Updated(update))
    /\ UNCHANGED << resolution, generation, handler, retry, syncData, extract, matchStep >>

\* catch (retryError): logged, then the delay before the next batch
ResendFails ==
    /\ update.pc = "await_resend"
    /\ \E error \in UpdateErrors :
          update' = AfterBatch([update EXCEPT
                                   !.log = Append(@, UpdateEvent("error", update.i, error))])
    /\ UNCHANGED << resolution, generation, handler, retry, syncData, extract, matchStep >>

\* the timer of the delay between batches fires
UpdateDelayElapses ==
    /\ update.pc = "await_delay"
    /\ update' = [update EXCEPT !.pc = "loop", !.i = @ + 1]
    /\ UNCHANGED << resolution, generation, handler, retry, syncData, extract, matchStep >>

UpdateNext ==
    \/ UpdateCalled
    \/ UpdateLoop
    \/ UpdateSucceeds
    \/ UpdateFailsSkip
    \/ UpdateFailsRetry
    \/ UpdateBackoffElapses
    \/ CreateReturns
    \/ ResendSucceeds
    \/ ResendFails
    \/ UpdateDelayElapses

UpdateSpec == UpdateInit /\ [][UpdateNext]_vars

(***************************************************************************)
(* processDataToBeSyncedWithHubspot / ...Zoho and syncDataWithHubspot /    *)
(* ...Zoho: contact ids are attached to the chats of every conversation,   *)
(* then the chats with a contact are updated, one conversation at a time   *)
(***************************************************************************)
MaxConversations == 2
MaxChats == 2

\* chat_id.split('@')[0]
BeforeAt(chat_id) ==
    IF \E k \in DOMAIN chat_id : chat_id[k] = "@"
    THEN SubSeq(chat_id, 1,
                (CHOOSE k \in DOMAIN chat_id :
                    chat_id[k] = "@" /\ \A h \in 1..(k - 1) : chat_id[h] # "@") - 1)
    ELSE chat_id

ChatIdSuffix == << "@", "c", ".", "u", "s" >>
\* the chats of one uid as the grouping builds them: no contactId yet
ChatPattern ==
    << Chat(JsUndefined, UsRaw \o ChatIdSuffix, "object"),
       Chat(JsUndefined, InRaw \o ChatIdSuffix, "object"),
       Chat(JsUndefined, Br11Raw \o ChatIdSuffix, "object") >>
ChatLists == { SubSeq(ChatPattern, 1, n) : n \in { 0, MaxChats } }

\* access_token: accessTokenMap[curr.uid] || null
Conversation(uid, access_token, chats) ==
    [uid |-> uid, access_token |-> access_token, chats |-> chats]

ConversationArrays ==
    { [u \in 1..n |-> Conversation(u, tokensOf[u], chatsOf[u])] :
        n \in { MaxConversations },
        tokensOf \in [1..MaxConversations -> { "none", "token" }],
        chatsOf \in [1..MaxConversations -> ChatLists] }

SyncContactIds == { << "3", "0", "1" >>, << "3", "0", "2" >> }

\* what the resolution call of one conversation may answer: an object with a
\* map of some of the phones passed, the empty array, or a rejection
ResolutionOutcomes(phones) ==
    { Thrown(401), Thrown(500), ReturnedArray }
    \cup { ReturnedObject(m) :
             m \in UNION { [S -> { [contactId |-> id] : id \in SyncContactIds }] :
                             S \in SUBSET { phones[k] : k \in DOMAIN phones } } }

\* const contactInfo = result.chatIdToContactIdMap[phoneNumber];
\* chat.contactId = contactInfo ? contactInfo.contactId : null
\* variant: contactInfo?.contactId, undefined when the phone has no entry
ContactIdFor_Optional(map, phoneNumber) ==
    IF phoneNumber \in DOMAIN map THEN map[phoneNumber].contactId ELSE JsUndefined

ContactIdFor(map, phoneNumber) ==
    IF phoneNumber \in DOMAIN map THEN map[phoneNumber].contactId ELSE JsNull

\* conversation.chats.forEach(chat => { chat.contactId = null })
AllNull(chats) == [k \in DOMAIN chats |-> [chats[k] EXCEPT !.contactId = JsNull]]

\* the try block after the resolution answered: Object.keys(result.chatIdToContactIdMap)
\* throws a TypeError for the empty array, which has no such property; the catch
\* sets every chat to null, as it does for a rejection
WithContactIds(chats, outcome) ==
    IF outcome.kind = "object"
    THEN [k \in DOMAIN chats |->
             [chats[k] EXCEPT !.contactId = ContactIdFor(outcome.map, BeforeAt(chats[k].chat_id))]]
    ELSE AllNull(chats)

\* if (chat.contactId): null, undefined and '' are falsy
Truthy(contactId) == contactId \notin { JsNull, JsUndefined, EmptyString }

\* conversation.chats.filter(chat => chat.contactId)
\* variant: every chat is passed
chatsWithContacts_NoFilter(conversation) == conversation.chats

chatsWithContacts(conversation) ==
    SelectSeq(conversation.chats, LAMBDA chat : Truthy(chat.contactId))

SyncEvent(ev, uid, arg) == [ev |-> ev, uid |-> uid, arg |-> arg]

DataSyncInit ==
    /\ syncData \in { [NoSyncData EXCEPT !.crm = crm, !.conversationSummaryArray = a,
                                          !.pc = "start"] :
                        crm \in CRMs, a \in ConversationArrays }
    /\ retry = NoRetry
    /\ update = NoUpdate
    /\ extract = NoExtract
    /\ matchStep = NoMatchStep
    /\ ResolutionIdle
    /\ GenerationIdle
    /\ HandlerIdle

\* syncDataWith*() calls processDataToBeSyncedWith*(), which awaits the extraction
DataSyncCalled ==
    /\ syncData.pc = "start"
    /\ syncData' = [syncData EXCEPT !.pc = "await_extract"]
    /\ UNCHANGED << resolution, generation, handler, retry, update, extract, matchStep >>

\* the extraction rejects: both functions re-throw
DataExtractFails ==
    /\ syncData.pc = "await_extract"
    /\ syncData' = [syncData EXCEPT !.pc = "done", !.outcome = "thrown"]
    /\ UNCHANGED << resolution, generation, handler, retry, update, extract, matchStep >>

\* the rows are grouped by uid; the loop over the conversations starts
DataExtracted ==
    /\ syncData.pc = "await_extract"
    /\ syncData' = [syncData EXCEPT !.pc = "process_loop", !.c = 1]
    /\ UNCHANGED << resolution, generation, handler, retry, update, extract, matchStep >>

\* one iteration of the loop of processDataToBeSyncedWith*, up to its await;
\* after the last conversation the array is returned and the loop of
\* syncDataWith* starts
ProcessLoop ==
    /\ syncData.pc = "process_loop"
    /\ LET array == syncData.conversationSummaryArray
           conversation == array[syncData.c]
       IN  syncData' =
              IF syncData.c > Len(array)
              THEN [syncData EXCEPT !.pc = "sync_loop", !.c = 1]
              ELSE IF conversation.access_token # "none"
              THEN [syncData EXCEPT !.pc = "await_resolve",
                       !.log = Append(@, SyncEvent("resolve", conversation.uid,
                                  [k \in DOMAIN conversation.chats |->
                                      BeforeAt(conversation.chats[k].chat_id)]))]
              ELSE [syncData EXCEPT !.c = @ + 1,
                       !.conversationSummaryArray[syncData.c].chats = AllNull(@)]
    /\ UNCHANGED << resolution, generation, handler, retry, update, extract, matchStep >>

\* contactExistanceBulkOn* answers for the conversation
ResolveAnswers ==
    /\ syncData.pc = "await_resolve"
    /\ LET conversation == syncData.conversationSummaryArray[syncData.c]
       IN  \E outcome \in ResolutionOutcomes(syncData.log[Len(syncData.log)].arg) :
              syncData' = [syncData EXCEPT
                  !.pc = "process_loop", !.c = @ + 1,
                  !.conversationSummaryArray[syncData.c].chats = WithContactIds(@, outcome),
                  !.log = Append(@, SyncEvent("resolved", conversation.uid, outcome))]
    /\ UNCHANGED << resolution, generation, handler, retry, update, extract, matchStep >>

\* one iteration of the loop of syncDataWith*, up to its await; after the last
\* conversation the function returns
SyncLoop ==
    /\ syncData.pc = "sync_loop"
    /\ LET array == syncData.conversationSummaryArray
           conversation == array[syncData.c]
       IN  syncData' =
              IF syncData.c > Len(array)
              THEN [syncData EXCEPT !.pc = "done", !.outcome = "returned"]
              ELSE IF /\ conversation.access_token # "none"
                      /\ Len(conversation.chats) > 0
                      /\ Len(chatsWithContacts(conversation)) > 0
              THEN [syncData EXCEPT !.pc = "await_batch",
                       !.log = Append(@, SyncEvent("update", conversation.uid,
                                                   chatsWithContacts(conversation)))]
              ELSE [syncData EXCEPT !.c = @ + 1]
    /\ UNCHANGED << resolution, generation, handler, retry, update, extract, matchStep >>

\* update*ContactsBatch resolves
BatchUpdateResolves ==
    /\ syncData.pc = "await_batch"
    /\ syncData' = [syncData EXCEPT !.pc = "sync_loop", !.c = @ + 1,
          !.log = Append(@, SyncEvent("updated", syncData.log[Len(syncData.log)].uid, "ok"))]
    /\ UNCHANGED << resolution, generation, handler, retry, update, extract, matchStep >>

\* update*ContactsBatch rejects: catch (error) { ...; continue }
BatchUpdateRejects ==
    /\ syncData.pc = "await_batch"
    /\ syncData' = [syncData EXCEPT !.pc = "sync_loop", !.c = @ + 1,
          !.log = Append(@, SyncEvent("updated", syncData.log[Len(syncData.log)].uid,
                                      "rejected"))]
    /\ UNCHANGED << resolution, generation, handler, retry, update, extract, matchStep >>

DataSyncNext ==
    \/ DataSyncCalled
    \/ DataExtractFails
    \/ DataExtracted
    \/ ProcessLoop
    \/ ResolveAnswers
    \/ SyncLoop
    \/ BatchUpdateResolves
    \/ BatchUpdateRejects

DataSyncSpec == DataSyncInit /\ [][DataSyncNext]_vars

(***************************************************************************)
(* extractDataFromActiveUsers: the active users are queried in the         *)
(* warehouse batch by batch, the rows of every batch are collected         *)
(***************************************************************************)
\* extractDataFromActiveUsers(batchSize = 25)
DefaultBatchSize == 25
QueryDelayMs == 500
MaxUsers == 51
MaxRows == 2

ExtractBatchSizes == { DefaultBatchSize, 10 }

\* [...hubspotUsers, ...zohoUsers]: n workspaces, the first of them again at the
\* end when dup = 1 (a workspace active in both CRMs)
ActiveUsers(n, dup) ==
    [k \in 1..(n + dup) |-> [workspace_id |-> IF k <= n THEN k ELSE 1]]

ActiveUsersLists ==
    { ActiveUsers(0, 0) }
    \cup { ActiveUsers(n, dup) :
             n \in { 1, DefaultBatchSize, DefaultBatchSize + 1, MaxUsers }, dup \in { 0, 1 } }

userBatchesOf ==
    [users \in ActiveUsersLists |->
        [size \in ExtractBatchSizes |-> chunkArray(users, size)]]

userBatches == userBatchesOf[extract.activeUsersWithScalerPlan][extract.batchSize]

\* [...new Set(batch.map(user => String(user.workspace_id)))]
workspaceIds(batch) ==
    SetAddAll(<< >>, [k \in DOMAIN batch |-> batch[k].workspace_id])

\* what a query may answer: up to MaxRows rows of the first workspace asked for
RowsFor(ids) ==
    { [k \in 1..n |-> [uid |-> ids[1], chat_id |-> k]] : n \in 0..MaxRows }

\* allResults.push(...rows)
\* variant: the rows are put in front of the rows collected so far
pushRows_Unshift(allResults, rows) == rows \o allResults

pushRows(allResults, rows) == allResults \o rows

ExtractEvent(ev, batch, arg) == [ev |-> ev, batch |-> batch, arg |-> arg]

ExtractInit ==
    /\ extract \in { [NoExtract EXCEPT !.batchSize = size, !.activeUsersWithScalerPlan = users,
                                       !.pc = "start"] :
                       size \in ExtractBatchSizes, users \in ActiveUsersLists }
    /\ retry = NoRetry
    /\ update = NoUpdate
    /\ syncData = NoSyncData
    /\ matchStep = NoMatchStep
    /\ ResolutionIdle
    /\ GenerationIdle
    /\ HandlerIdle

\* await getActiveUsers(crms) rejects: the outer catch re-throws
ActiveUsersFail ==
    /\ extract.pc = "start"
    /\ extract' = [extract EXCEPT !.pc = "done", !.outcome.kind = "thrown"]
    /\ UNCHANGED << resolution, generation, handler, retry, update, syncData, matchStep >>

\* the users arrive: userBatches = chunkArray(users, batchSize), the loop starts
ActiveUsersArrive ==
    /\ extract.pc = "start"
    /\ extract' = [extract EXCEPT !.pc = "loop", !.i = 1]
    /\ UNCHANGED << resolution, generation, handler, retry, update, syncData, matchStep >>

\* loop test; the query of batch i is sent, or the function returns
ExtractLoop ==
    /\ extract.pc = "loop"
    /\ extract' =
          IF extract.i > Len(userBatches)
          THEN [extract EXCEPT !.pc = "done",
                   !.outcome = [kind |-> "returned", conversationSummary |-> extract.allResults]]
          ELSE [extract EXCEPT !.pc = "await_query",
                   !.log = Append(@, ExtractEvent("query", extract.i,
                                                  workspaceIds(userBatches[extract.i])))]
    /\ UNCHANGED << resolution, generation, handler, retry, update, syncData, matchStep >>

\* const [rows] = await bigquery.query(query): the rows are pushed, then the
\* delay before the next batch
QuerySucceeds ==
    /\ extract.pc = "await_query"
    /\ \E rows \in RowsFor(extract.log[Len(extract.log)].arg) :
          LET pushed == [extract EXCEPT
                            !.allResults = IF Len(rows) > 0 THEN pushRows(@, rows) ELSE @,
                            !.log = Append(@, ExtractEvent("rows", extract.i, rows))]
          IN  extract' =
                 IF DelayAfterSuccess(extract.i, Len(userBatches))
                 THEN [pushed EXCEPT !.pc = "await_delay",
                          !.log = Append(@, ExtractEvent("delay", extract.i, QueryDelayMs))]
                 ELSE [pushed EXCEPT !.pc = "loop", !.i = @ + 1]
    /\ UNCHANGED << resolution, generation, handler, retry, update, syncData, matchStep >>

\* catch (batchError) { ...; continue }
QueryFails ==
    /\ extract.pc = "await_query"
    /\ extract' = [extract EXCEPT !.pc = "loop", !.i = @ + 1,
                      !.log = Append(@, ExtractEvent("error", extract.i, << >>))]
    /\ UNCHANGED << resolution, generation, handler, retry, update, syncData, matchStep >>

\* the timer of the delay between batches fires
QueryDelayElapses ==
    /\ extract.pc = "await_delay"
    /\ extract' = [extract EXCEPT !.pc = "loop", !.i = @ + 1]
    /\ UNCHANGED << resolution, generation, handler, retry, update, syncData, matchStep >>

ExtractNext ==
    \/ ActiveUsersFail
    \/ ActiveUsersArrive
    \/ ExtractLoop
    \/ QuerySucceeds
    \/ QueryFails
    \/ QueryDelayElapses

ExtractSpec == ExtractInit /\ [][ExtractNext]_vars

(***************************************************************************)
(* The matching step of contactExistanceBulkOnHubspot on its own: the      *)
(* phones of the call and the contacts the searches returned are drawn     *)
(* from small pools, among them a contact whose only phone field holds no  *)
(* digit, and the step deduplicates the contacts and fills the map.        *)
(***************************************************************************)
MaxMatchPhones == 2
MaxMatchContacts == 2

\* a contact whose phone field is a placeholder without any digit
ContactNoDigits == HubspotContact("103", <<"N","/","A">>, EmptyString)

\* a contact found under its E.164 phone whose mobilephone is such a placeholder
ContactPlaceholderMobile == HubspotContact("104", <<"+">> \o UsRaw, <<"N","/","A">>)

MatchContactPool == { ContactDashed, ContactE164, ContactNoDigits, ContactPlaceholderMobile }
MatchPhonePool == PhonePool \cup { JsNull }

MatchInit ==
    /\ \E phones \in SeqsUpTo(MatchPhonePool, MaxMatchPhones) :
       \E found \in SeqsUpTo(MatchContactPool, MaxMatchContacts) :
            matchStep = [NoMatchStep EXCEPT !.phoneNumbers = phones,
                                            !.allContacts = found,
                                            !.pc = "loop-done"]
    /\ retry = NoRetry
    /\ update = NoUpdate
    /\ syncData = NoSyncData
    /\ extract = NoExtract
    /\ ResolutionIdle
    /\ GenerationIdle
    /\ HandlerIdle

\* deduplicate the contacts, then the forEach over phoneNumbers fills the map
MatchContacts ==
    /\ matchStep.pc = "loop-done"
    /\ matchStep' =
        [matchStep EXCEPT
            !.uniqueContacts = uniqueContactsOf(matchStep.allContacts),
            !.chatIdToContactIdMap =
                matchPhones(matchStep.phoneNumbers, uniqueContactsOf(matchStep.allContacts)),
            !.pc = "returned"]
    /\ UNCHANGED << resolution, generation, handler, retry, update, syncData, extract >>

MatchNext == MatchContacts

MatchSpec == MatchInit /\ [][MatchNext]_vars

(***************************************************************************)
(* Vocabulary of the properties                                            *)
(***************************************************************************)
Finished == pc \in {"returned", "threw", "done"}

EventsAt(ev) == { k \in DOMAIN log : log[k].ev = ev }
EventsOf(ev, chunk) == { k \in EventsAt(ev) : log[k].chunk = chunk }

SearchCount == Cardinality(EventsAt("search"))

ValidPhones ==
    { phoneNumbers[k] : k \in { j \in 1..Len(phoneNumbers) : IsValidPhone(phoneNumbers[j]) } }

\* V: the number of variation values over all valid entries of the input
RECURSIVE TotalVariations(_)
TotalVariations(phones) ==
    IF phones = << >> THEN 0
    ELSE (IF IsValidPhone(Head(phones))
          THEN Len(VariationsOf[Head(phones)]) ELSE 0)
         + TotalVariations(Tail(phones))

TotalVariationsOf == [phones \in InputLists |-> TotalVariations(phones)]

CeilDiv(a, b) == (a + b - 1) \div b

FieldValues(contact) ==
    { contact.properties.phone, contact.properties.mobilephone,
      contact.properties.hs_searchable_calculated_phone_number,
      contact.properties.hs_searchable_calculated_mobile_number,
      contact.properties.hs_whatsapp_phone_number } \ { EmptyString }

VariationSet(phone) == { VariationsOf[phone][k] : k \in 1..Len(VariationsOf[phone]) }

ExactMatch(contact, phone) == FieldValues(contact) \cap VariationSet(phone) # {}

\* the digit-only projections of the variations of a phone, of the fields of a contact
VariationDigitsOf ==
    [phone \in PhonePool |-> { DigitsOnly(v) : v \in VariationSet(phone) }]
FieldDigitsOf ==
    [contact \in HubspotContactPool |-> { DigitsOnly(f) : f \in FieldValues(contact) }]

DigitMatch(contact, phone) == FieldDigitsOf[contact] \cap VariationDigitsOf[phone] # {}

\* index of the first contact of allContacts that carries the id
FirstIndex(id) ==
    CHOOSE k \in 1..Len(allContacts) :
        /\ allContacts[k].id = id
        /\ \A j \in 1..(k - 1) : allContacts[j].id # id

HubspotReturnedMap == IsHubspot(impl) /\ Finished /\ result.kind = "object"

(***************************************************************************)
(* C1  A HubSpot resolution in which chunks fail only with non-401 errors  *)
(* never rejects; every contact a successful chunk returned is among the   *)
(* contacts handed to deduplication and matching, and every phone matched  *)
(* by the (first-occurrence) record of such a contact is a key of the map. *)
(***************************************************************************)
C1_PartialFailureTolerated ==
    (IsHubspot(impl) /\ Finished /\ \A k \in EventsAt("fail") : log[k].arg # 401) =>
        /\ result.kind # "thrown"
        /\ NumChunks > 0 => result.kind = "object"
        /\ \A r \in DOMAIN responses : \A c \in DOMAIN responses[r].results :
              /\ \E a \in DOMAIN allContacts : allContacts[a] = responses[r].results[c]
              /\ result.kind = "object" =>
                    \E u \in DOMAIN uniqueContacts :
                        uniqueContacts[u].id = responses[r].results[c].id
        /\ \A phone \in ValidPhones :
              (\E a \in DOMAIN allContacts :
                  DigitMatch(allContacts[FirstIndex(allContacts[a].id)], phone))
                  => phone \in DOMAIN result.map

\* chunk 2 of 3 failed with a 500, chunks 1 and 3 each returned a contact that is mapped
C1_Witness ==
    /\ impl = "hubspot" /\ pc = "returned" /\ NumChunks = 3
    /\ \E k \in EventsOf("fail", 2) : log[k].arg = 500
    /\ \E r1, r3 \in DOMAIN responses :
          /\ responses[r1].chunk = 1 /\ responses[r1].results # << >>
          /\ responses[r3].chunk = 3 /\ responses[r3].results # << >>
    /\ Len(uniqueContacts) = 2
    /\ UsRaw \in DOMAIN result.map

(***************************************************************************)
(* C2  (as claimed) A chunk failing with 401 when no refresh credential    *)
(* was supplied ends the call: no later search is sent, no map is          *)
(* returned, and the call rejects with the 401.                            *)
(***************************************************************************)
C2_Unrefreshable401Propagates ==
    \A k \in EventsAt("fail") :
        (impl \in {"hubspot", "hubspot_refresh"} /\ log[k].arg = 401
            /\ refreshToken = "none") =>
            /\ \A m \in DOMAIN log : m > k => log[m].ev # "search"
            /\ result.kind \notin {"array", "object"}
            /\ Finished => result = Thrown(401)

(***************************************************************************)
(* C3  (as claimed) When the search re-sent after a successful refresh     *)
(* fails too, the chunk is skipped and the call does not reject.           *)
(***************************************************************************)
C3_FailedRetrySkipsChunk ==
    \A k \in EventsAt("fail") :
        (k > 2 /\ log[k - 1].ev = "search" /\ log[k - 2].ev = "refresh_ok") =>
            /\ result.kind # "thrown"
            /\ pc # "threw"

(***************************************************************************)
(* C4  The token refresh is called at most once per chunk, only right      *)
(* after a 401 of that chunk and only when a refresh credential was        *)
(* supplied; in the version with refresh a chunk is sent at most twice,    *)
(* the second time right after the successful refresh for that chunk.      *)
(***************************************************************************)
C4_RefreshAtMostOncePerChunk ==
    /\ \A c \in 1..NumChunks : Cardinality(EventsOf("refresh", c)) <= 1
    /\ \A k \in EventsAt("refresh") :
          /\ k > 1
          /\ log[k - 1].ev = "fail" /\ log[k - 1].arg = 401
          /\ log[k - 1].chunk = log[k].chunk
          /\ refreshToken # "none"
    /\ impl = "hubspot_refresh" =>
          \A c \in 1..NumChunks :
              /\ Cardinality(EventsOf("search", c)) <= 2
              /\ \A k, m \in EventsOf("search", c) :
                    k < m => log[m - 1].ev = "refresh_ok" /\ log[m - 1].chunk = c

\* two chunks each went through one refresh-and-retry, a third failed with a 500
C4_Witness ==
    /\ impl = "hubspot_refresh" /\ pc = "returned"
    /\ Cardinality(EventsAt("refresh")) = 2
    /\ \E k \in EventsAt("fail") : log[k].arg = 500

(***************************************************************************)
(* C5  (as claimed) With K = 100 and V variations in total, a finished     *)
(* HubSpot resolution has invoked the search exactly ceil(V / K) times,    *)
(* never with more than K values.                                          *)
(***************************************************************************)
C5_ExactlyCeilSearches ==
    (IsHubspot(impl) /\ Finished) =>
        /\ SearchCount = CeilDiv(TotalVariations(phoneNumbers), HubspotBatchSize)
        /\ \A k \in EventsAt("search") : log[k].arg <= HubspotBatchSize

(***************************************************************************)
(* C5  (amended) The V variations are cut into ceil(V / K) chunks of K     *)
(* values, the last one holding the rest; no search carries more than K    *)
(* values; a finished resolution has searched every chunk (every chunk up  *)
(* to the one it rejected at) at least once, exactly once each when no     *)
(* search failed or in the version that never re-sends; a chunk is sent    *)
(* at most twice in the version with refresh and at most three times in    *)
(* the version with backoff.                                               *)
(***************************************************************************)
C5_ChunkingBounds ==
    IsHubspot(impl) =>
        LET V == TotalVariationsOf[phoneNumbers]
            N == CeilDiv(V, HubspotBatchSize)
        IN  /\ \A k \in EventsAt("search") :
                  /\ log[k].chunk \in 1..N
                  /\ log[k].arg = IF log[k].chunk < N THEN HubspotBatchSize
                                  ELSE V - HubspotBatchSize * (N - 1)
                  /\ log[k].arg \in 1..HubspotBatchSize
            /\ \A c \in 1..N :
                  Cardinality(EventsOf("search", c)) <=
                      CASE impl = "hubspot" -> 1
                        [] impl = "hubspot_refresh" -> 2
                        [] OTHER -> DefaultMaxRetries
            /\ Finished =>
                  /\ \A c \in 1..(IF result.kind = "thrown" THEN i ELSE N) :
                        EventsOf("search", c) # {}
                  /\ (impl = "hubspot" \/ EventsAt("fail") = {}) => SearchCount = N

\* two chunks, the first one sent three times under backoff before the call returned
C5_Witness ==
    /\ impl = "hubspot_retry" /\ pc = "returned"
    /\ NumChunks = 2
    /\ Cardinality(EventsOf("search", 1)) = 3
    /\ Cardinality(EventsOf("search", 2)) = 1
    /\ \E k \in EventsOf("search", 2) : log[k].arg = 11

(***************************************************************************)
(* C6  Chunks are processed strictly one after the other: at most one      *)
(* search request is in flight, chunk indexes never go backwards, and      *)
(* between two requests the earlier one has completed (ok or fail).        *)
(***************************************************************************)
C6_SequentialChunks ==
    /\ inFlight <= 1
    /\ \A k, m \in EventsAt("search") :
          k < m =>
              /\ log[k].chunk <= log[m].chunk
              /\ \E j \in (k + 1)..(m - 1) :
                    log[j].ev \in {"ok", "fail"} /\ log[j].chunk = log[k].chunk

\* the third chunk is in flight after a completed first and second one
C6_Witness ==
    /\ pc = "await_search" /\ i = 3 /\ inFlight = 1
    /\ EventsOf("ok", 1) # {} /\ EventsOf("fail", 2) # {}

(***************************************************************************)
(* C7  (as claimed) Between any two consecutive search requests of a       *)
(* resolution a 200 ms delay is waited, whatever the outcome of the        *)
(* earlier one, and no delay follows the last chunk.                       *)
(***************************************************************************)
C7_DelayBetweenRequests ==
    impl \in {"hubspot", "hubspot_refresh", "zoho"} =>
        /\ \A k, m \in EventsAt("search") :
              k < m =>
                  \E j \in (k + 1)..(m - 1) :
                      log[j].ev = "delay" /\ log[j].arg = InterChunkDelayMs
        /\ EventsOf("delay", NumChunks) = {}

(***************************************************************************)
(* C8  (as claimed) For an input without any valid phone, on HubSpot and   *)
(* on Zoho alike, no search is sent and the caller reads a                 *)
(* chatIdToContactIdMap that is the empty map, without error.              *)
(***************************************************************************)
C8_EmptyInputSameShape ==
    (pc = "done" /\ ValidPhones = {}) =>
        /\ EventsAt("search") = {}
        /\ result = ReturnedObject(EmptyMap)
        /\ callerError = "none"

(***************************************************************************)
(* C9  Deduplication by identifier: the deduplicated contacts have         *)
(* pairwise distinct ids, cover every id of the raw results, stand in the  *)
(* order of first occurrence, each is the record of the first occurrence   *)
(* of its id, and every map entry holds such a record and its id.          *)
(***************************************************************************)
C9_DedupFirstOccurrence ==
    HubspotReturnedMap =>
        /\ \A a, b \in DOMAIN uniqueContacts :
              a # b => uniqueContacts[a].id # uniqueContacts[b].id
        /\ \A a \in DOMAIN allContacts :
              \E u \in DOMAIN uniqueContacts : uniqueContacts[u].id = allContacts[a].id
        /\ \A u \in DOMAIN uniqueContacts :
              uniqueContacts[u] = allContacts[FirstIndex(uniqueContacts[u].id)]
        /\ \A a, b \in DOMAIN uniqueContacts :
              a < b => FirstIndex(uniqueContacts[a].id) < FirstIndex(uniqueContacts[b].id)
        /\ \A phone \in DOMAIN result.map :
              /\ result.map[phone].contact
                    = allContacts[FirstIndex(result.map[phone].contact.id)]
              /\ result.map[phone].contactId = result.map[phone].contact.id

\* the raw results hold two different records of one id; the first one is mapped
C9_Witness ==
    /\ HubspotReturnedMap
    /\ Len(allContacts) = 2 /\ Len(uniqueContacts) = 1
    /\ allContacts[1].id = allContacts[2].id /\ allContacts[1] # allContacts[2]
    /\ DOMAIN result.map # {}

(***************************************************************************)
(* C10 (as claimed) Whenever a deduplicated contact matches a phone        *)
(* exactly, the contact selected for that phone is an exact match.         *)
(***************************************************************************)
C10_ExactMatchPreferred ==
    HubspotReturnedMap =>
        \A phone \in ValidPhones :
            (\E u \in DOMAIN uniqueContacts : ExactMatch(uniqueContacts[u], phone)) =>
                /\ phone \in DOMAIN result.map
                /\ ExactMatch(result.map[phone].contact, phone)

(***************************************************************************)
(* C10 (amended) The selected contact matches the phone exactly or by      *)
(* digits; it is an exact match whenever some contact matches exactly and  *)
(* no contact before it in deduplicated order matches by digits only.      *)
(***************************************************************************)
C10_FirstMatchInOnePass ==
    HubspotReturnedMap =>
        /\ \A phone \in DOMAIN result.map : DigitMatch(result.map[phone].contact, phone)
        /\ \A phone \in ValidPhones :
              (\E u \in DOMAIN uniqueContacts :
                  /\ ExactMatch(uniqueContacts[u], phone)
                  /\ \A b \in 1..(u - 1) :
                        DigitMatch(uniqueContacts[b], phone)
                            => ExactMatch(uniqueContacts[b], phone)) =>
                  /\ phone \in DOMAIN result.map
                  /\ ExactMatch(result.map[phone].contact, phone)

\* an exact match stands before a digit-only match and is the one selected
C10_Witness ==
    /\ HubspotReturnedMap
    /\ uniqueContacts = << ContactE164, ContactDashed >>
    /\ UsRaw \in DOMAIN result.map
    /\ result.map[UsRaw].contact = ContactE164

\* index in uniqueContacts of the first contact that matches the phone
FirstMatchIndex(phone) ==
    CHOOSE u \in DOMAIN uniqueContacts :
        /\ DigitMatch(uniqueContacts[u], phone)
        /\ \A b \in 1..(u - 1) : ~DigitMatch(uniqueContacts[b], phone)

(***************************************************************************)
(* C11 When several deduplicated contacts match one phone, the map entry   *)
(* of that phone is the matching contact that stands first in the          *)
(* deduplicated order.                                                     *)
(***************************************************************************)
C11_FirstInDedupOrderWins ==
    HubspotReturnedMap =>
        \A phone \in DOMAIN result.map :
            /\ result.map[phone].contact = uniqueContacts[FirstMatchIndex(phone)]
            /\ result.map[phone].contactId = uniqueContacts[FirstMatchIndex(phone)].id

\* both contacts match the US number; the first one, a digit-only match, is the entry
C11_Witness ==
    /\ HubspotReturnedMap
    /\ uniqueContacts = << ContactDashed, ContactE164 >>
    /\ DigitMatch(ContactDashed, UsRaw) /\ DigitMatch(ContactE164, UsRaw)
    /\ result.map[UsRaw].contactId = "101"

(***************************************************************************)
(* C12 The keys of the map are original valid input phones only; a valid   *)
(* phone is a key exactly when some deduplicated contact has a phone field *)
(* matching one of its variations; one contact may be the entry of         *)
(* several phones.                                                         *)
(***************************************************************************)
C12_KeysAreMatchedInputPhones ==
    HubspotReturnedMap =>
        /\ DOMAIN result.map \subseteq ValidPhones
        /\ \A phone \in ValidPhones :
              phone \in DOMAIN result.map <=>
                  \E u \in DOMAIN uniqueContacts : DigitMatch(uniqueContacts[u], phone)

\* one contact is the entry of two phones, a third valid phone has no entry, and
\* no key is a variation that is not an input phone
C12_Witness ==
    /\ HubspotReturnedMap
    /\ ValidPhones = { UsRaw, StatusRaw, InRaw }
    /\ DOMAIN result.map = { UsRaw, InRaw }
    /\ result.map[UsRaw].contact = ContactE164
    /\ result.map[InRaw].contact = ContactE164

(***************************************************************************)
(* C13 Matching is tolerant to separators: a deduplicated contact with a   *)
(* value in any of its five phone fields whose digits equal the digits of  *)
(* a variation of a phone matches that phone, so the phone is mapped.      *)
(***************************************************************************)
C13_SeparatorTolerant ==
    HubspotReturnedMap =>
        \A u \in DOMAIN uniqueContacts : \A phone \in ValidPhones :
            DigitMatch(uniqueContacts[u], phone) =>
                /\ phone \in DOMAIN result.map
                /\ uniqueContacts[FirstMatchIndex(phone)].id = result.map[phone].contactId
                /\ FirstMatchIndex(phone) <= u

\* the only contact holds '+91 98765-43210' in hs_whatsapp_phone_number, which is
\* no variation of the Indian number but has its digits
C13_Witness ==
    /\ HubspotReturnedMap
    /\ uniqueContacts = << ContactDashedLater >>
    /\ ~ExactMatch(ContactDashedLater, InRaw)
    /\ InRaw \in DOMAIN result.map
    /\ result.map[InRaw].contact = ContactDashedLater

\* some chunk has not been dealt with yet
ChunksInProgress == ~Finished /\ pc # "start" /\ i <= NumChunks

\* the phone-bearing fields of a contact record of either CRM
PhoneFieldsOf(contact) ==
    IF IsHubspot(impl) THEN FieldValues(contact)
    ELSE { contact.Phone, contact.Mobile } \ { EmptyString }

FieldMatchesPhone(contact, phone) ==
    \E f \in PhoneFieldsOf(contact) : \E v \in VariationSet(phone) :
        DigitsOnly(f) = DigitsOnly(v)

IsStringEntry(v) == v \notin { EmptyString, JsNull, JsNumber }
Restricted == SelectSeq(phoneNumbers, IsStringEntry)
RestrictedSet == { Restricted[k] : k \in DOMAIN Restricted }

\* per Zoho chunk, the number of string entries at the chunk's positions
StringEntriesOf ==
    [phones \in InputLists |->
        [c \in 1..CeilDiv(Len(phones), ZohoChunkSize) |->
            Cardinality({ j \in 1..Len(phones) :
                            /\ (j - 1) \div ZohoChunkSize = c - 1
                            /\ IsStringEntry(phones[j]) })]]

\* the batches the restricted list alone gives, for every input list
RestrictedBatchesOf ==
    [phones \in InputLists |->
        chunkArray(allPhoneNumberVariationsOf(SelectSeq(phones, IsStringEntry)),
                   HubspotBatchSize)]

BothEnabled == \A c \in CRMs : enabled[c]

\* some step of the sync of a CRM
SyncStep(crm) ==
    ExtractReturns(crm) \/ ExtractFails(crm) \/ SyncCompletes(crm) \/ ResolutionStep(crm)

RejectedIn(order) == SelectSeq(order, LAMBDA c : syncs[c].state = "rejected")

(***************************************************************************)
(* C16 With both syncs enabled the handler answers only after both syncs   *)
(* have settled; while one sync is rejected the other can still take its   *)
(* next step; the response carries each CRM's own final status and one     *)
(* error entry, with the rejection's message, per rejected sync.           *)
(***************************************************************************)
C16_AllSettledJoin ==
    BothEnabled =>
        /\ \A c \in CRMs :
              (syncs[c].state = "rejected" /\ syncs[Other(c)].state \in {"extract", "resolve"})
                  => (handlerPc = "awaiting" /\ ENABLED SyncStep(Other(c)))
        /\ (handlerPc = "responded" /\ syncs["hubspot"].state # "notStarted") =>
              /\ httpResponse.status = 200
              /\ \A c \in CRMs :
                    /\ Settled(syncs[c])
                    /\ httpResponse.results[c] = syncs[c].state
              /\ LET rejected == RejectedIn(<< "hubspot", "zoho" >>)
                 IN  /\ httpResponse.errors.defined = (rejected # << >>)
                     /\ httpResponse.errors.list =
                            [k \in 1..Len(rejected) |->
                                [crm |-> CrmLabel(rejected[k]),
                                 error |-> syncs[rejected[k]].reason]]

\* HubSpot's sync rejected, Zoho's ran its resolution over two chunks and fulfilled
C16_Witness ==
    /\ BothEnabled /\ handlerPc = "responded"
    /\ syncs["hubspot"].state = "rejected"
    /\ syncs["zoho"].state = "fulfilled"
    /\ Len(syncs["zoho"].heard) = 2
    /\ syncs["zoho"].result.kind = "object"
    /\ httpResponse.results = [hubspot |-> "rejected", zoho |-> "fulfilled"]
    /\ httpResponse.errors = [defined |-> TRUE,
                              list |-> << [crm |-> "HubSpot", error |-> "Query failed"] >>]

(***************************************************************************)
(* Vocabulary of the properties of two concurrent resolution calls         *)
(***************************************************************************)
HeardOk(crm) == SelectSeq(syncs[crm].heard, LAMBDA h : h.ok)

\* the contacts the answers of a call carried, in the order they arrived
ContactsHeard(crm) ==
    Flatten([k \in 1..Len(HeardOk(crm)) |->
                SelectSeq(HeardOk(crm)[k].results, LAMBDA r : r # ZohoMiss)])

RECURSIVE ZohoAlone(_, _, _)
ZohoAlone(map, phones, answers) ==
    IF answers = << >> THEN map
    ELSE ZohoAlone(zohoApply(map,
                             SelectSeq(SyncChunksOf[phones][Head(answers).chunk], IsValidPhone),
                             Head(answers).results),
                   phones, Tail(answers))

\* what the call returns when it runs alone and hears the same answers
RunAlone(crm) ==
    LET phones == syncs[crm].phoneNumbers
    IN  IF crm = "hubspot"
        THEN (IF Len(allPhoneNumberVariationsOf(phones)) = 0 THEN ReturnedArray
              ELSE ReturnedObject(matchPhones(phones, uniqueContactsOf(ContactsHeard(crm)))))
        ELSE ReturnedObject(ZohoAlone(EmptyMap, phones, HeardOk(crm)))

CallRunning(crm) ==
    syncs[crm].state = "resolve" /\ syncs[crm].pc \notin { "returned", "threw" }

(***************************************************************************)
(* C17 However the steps of a HubSpot and of a Zoho resolution call are    *)
(* interleaved, each call hears its chunks in order, accumulates only the  *)
(* contacts of its own answers and returns the result it returns alone on  *)
(* these answers; a call waiting in its inter-chunk delay leaves the next  *)
(* step of the other call enabled.                                         *)
(***************************************************************************)
C17_ConcurrentCallsIndependent ==
    \A c \in CRMs :
        /\ syncs[c].state \in { "resolve", "fulfilled" } =>
              /\ syncContacts[c] = ContactsHeard(c)
              /\ \A k \in DOMAIN syncs[c].heard : syncs[c].heard[k].chunk = k
        /\ syncs[c].pc = "returned" =>
              /\ syncs[c].result = RunAlone(c)
              /\ Len(allPhoneNumberVariationsOf(syncs[c].phoneNumbers)) > 0
                    => Len(syncs[c].heard) = SyncNumChunks(c)
        /\ syncs[c].pc # "threw"
        /\ (syncs[c].pc = "await_delay" /\ CallRunning(Other(c)))
              => ENABLED ResolutionStep(Other(c))

\* both calls returned a non-empty map over two chunks, and each heard an
\* answer while the other was waiting in its inter-chunk delay
C17_Witness ==
    \A c \in CRMs :
        /\ syncs[c].pc = "returned"
        /\ Len(syncs[c].heard) = 2
        /\ DOMAIN syncs[c].result.map # {}
        /\ \E k \in DOMAIN syncs[c].heard : syncs[c].heard[k].during

(***************************************************************************)
(* Vocabulary of the properties of generatePhoneNumberVariations           *)
(***************************************************************************)
Called == generated.kind # "pending"

NonEmptyString(v) == v \notin { EmptyString, JsNull, JsNumber } /\ ~IsJsArray(v)

ValuesSet == { generated.values[k] : k \in DOMAIN generated.values }

\* the string handed to the parser, and whether the table parses it
ArgWithPlus == IF "+" \in { phoneArg[k] : k \in DOMAIN phoneArg }
               THEN phoneArg ELSE <<"+">> \o phoneArg
ArgParses == parsePhoneNumberFromString(ArgWithPlus).ok

\* position of the first '+' of the argument, 0 when there is none
FirstPlus ==
    IF \E k \in DOMAIN phoneArg : phoneArg[k] = "+"
    THEN CHOOSE k \in DOMAIN phoneArg :
            phoneArg[k] = "+" /\ \A j \in 1..(k - 1) : phoneArg[j] # "+"
    ELSE 0

(***************************************************************************)
(* C18 For a non-empty string the function returns a non-empty array       *)
(* without duplicates that holds the raw input and, when the input         *)
(* parses, the E.164 form, the national number and the country code        *)
(* followed by the national number.                                        *)
(***************************************************************************)
C18_ContainsRawAndCanonicalForms ==
    (Called /\ NonEmptyString(phoneArg)) =>
        /\ generated.kind = "returned"
        /\ generated.values # << >>
        /\ \A j, k \in DOMAIN generated.values :
              j # k => generated.values[j] # generated.values[k]
        /\ phoneArg \in ValuesSet
        /\ ArgParses =>
              LET parsed == parsePhoneNumberFromString(ArgWithPlus)
                  digits == SelectSeq(phoneArg, LAMBDA ch : ch # "+")
              IN  /\ <<"+">> \o digits \in ValuesSet
                  /\ digits \in ValuesSet
                  /\ parsed.nationalNumber \in ValuesSet
                  /\ parsed.countryCallingCode \o parsed.nationalNumber = digits

\* the US number without '+': raw equals country code + national number
C18_Witness ==
    /\ phoneArg = UsRaw /\ generated.kind = "returned"
    /\ Len(generated.values) = 11
    /\ generated.values[1] = UsRaw
    /\ generated.values[2] = <<"+">> \o UsRaw

(***************************************************************************)
(* C19 (as claimed) For a non-empty string that does not parse the         *)
(* function returns exactly the raw string and the raw string without      *)
(* its leading '+', a single member when it has no leading '+'.            *)
(***************************************************************************)
C19_RawAndWithoutLeadingPlus ==
    (Called /\ NonEmptyString(phoneArg) /\ ~ArgParses) =>
        /\ generated.kind = "returned"
        /\ ValuesSet = { phoneArg }
                \cup (IF Head(phoneArg) = "+" THEN { Tail(phoneArg) } ELSE {})
        /\ Head(phoneArg) # "+" => Len(generated.values) = 1

(***************************************************************************)
(* C19 (amended) For a non-empty string that does not parse the function   *)
(* does not throw and returns exactly the raw string followed by the raw   *)
(* string with its first '+' removed, wherever that '+' stands; a single   *)
(* member when the string holds no '+'.                                    *)
(***************************************************************************)
C19_RawAndWithoutFirstPlus ==
    (Called /\ NonEmptyString(phoneArg) /\ ~ArgParses) =>
        /\ generated.kind = "returned"
        /\ generated.values =
              IF FirstPlus = 0 THEN << phoneArg >>
              ELSE << phoneArg,
                      SubSeq(phoneArg, 1, FirstPlus - 1)
                          \o SubSeq(phoneArg, FirstPlus + 1, Len(phoneArg)) >>

\* 'a+a' gives 'a+a' and 'aa'
C19_Witness ==
    /\ phoneArg = <<"a", "+", "a">>
    /\ generated.kind = "returned"
    /\ generated.values = << <<"a", "+", "a">>, <<"a", "a">> >>

(***************************************************************************)
(* C20 (as claimed) For an argument that is empty or not a string the      *)
(* function throws 'Phone number is required' and produces no variations.  *)
(***************************************************************************)
C20_InvalidInputRejected ==
    (Called /\ ~NonEmptyString(phoneArg)) =>
        /\ generated.kind = "thrown"
        /\ generated.error = "Phone number is required"
        /\ generated.values = << >>

(***************************************************************************)
(* Vocabulary of the properties of the Brazilian and Mexican heuristics    *)
(***************************************************************************)
EndsWith(s, suffix) ==
    Len(s) >= Len(suffix) /\ SubSeq(s, Len(s) - Len(suffix) + 1, Len(s)) = suffix

\* the same Brazilian mobile with and without the ninth digit, as inputs and
\* as a contact may store it
BrInputs == { Br10Raw, Br11Raw, <<"+">> \o Br10Raw, <<"+">> \o Br11Raw }
BrStored == { <<"+">> \o Br10Raw, <<"+">> \o Br11Raw }

\* the other representation of a Brazilian input
BrOther(phone) ==
    IF DigitsOnly(phone) = Br10Raw THEN Br11Raw ELSE Br10Raw

StoredMatches(stored) ==
    ContactMatches(HubspotContact("301", stored, EmptyString), generated.values)

(***************************************************************************)
(* C21 (as claimed) The variations of a Brazilian number given with the    *)
(* 11-digit and with the 10-digit national number overlap, and a contact   *)
(* storing either representation is matched by both inputs.                *)
(***************************************************************************)
C21_BrazilianRepresentationsMatch ==
    (Called /\ phoneArg \in BrInputs) =>
        /\ generated.kind = "returned"
        /\ ValuesSet \cap { v \in ValuesSet :
               \E k \in DOMAIN generatePhoneNumberVariations(BrOther(phoneArg)) :
                   generatePhoneNumberVariations(BrOther(phoneArg))[k] = v } # {}
        /\ \A stored \in BrStored : StoredMatches(stored)

(***************************************************************************)
(* C22 (as claimed) For a Mexican number the legacy form +52 1 <national>  *)
(* is added with its renderings, and every variation keeps the digits of   *)
(* the national number: the only digit a stripped variant lacks is the     *)
(* legacy 1.                                                               *)
(***************************************************************************)
C22_MexicanStrippedVariants ==
    (Called /\ DigitsOnly(phoneArg) = MxRaw) =>
        LET national == SubSeq(MxRaw, 3, 12)
        IN  /\ generated.kind = "returned"
            /\ <<"+","5","2","1">> \o national \in ValuesSet
            /\ <<"5","2","1">> \o national \in ValuesSet
            /\ \A v \in ValuesSet : EndsWith(DigitsOnly(v), national)


RetrySettled == retry.pc = "done"
AllAttemptsFailed == \A k \in DOMAIN retry.attempts : retry.attempts[k] # "ok"

\* C23 (as claimed): maxRetries counts the retries: when every call of func
\* fails, func is called maxRetries + 1 times before the error is thrown; when
\* a call succeeds, the result is returned and func is not called again
C23_MaxRetriesCountsRetries ==
    RetrySettled =>
        /\ (retry.outcome.kind = "rejected" /\ AllAttemptsFailed
                /\ retry.maxRetries >= 1) =>
               retry.calls = retry.maxRetries + 1
        /\ retry.outcome.kind = "resolved" =>
               /\ retry.calls = Len(retry.attempts)
               /\ retry.attempts[Len(retry.attempts)] = "ok"

UpdateRunning == update.pc # "idle"
UpdateSettled == update.pc = "done"
UpdateLogAt(ev) == { k \in DOMAIN update.log : update.log[k].ev = ev }
Requests == UpdateLogAt("request")
RequestsOf(b) == { k \in Requests : update.log[k].batch = b }

\* the contact ids of the inputs of a request: batch.map(chat => ({ id: chat.contactId, ... }))
IdsOf(batch) == { batch[j].contactId : j \in DOMAIN batch }
BatchIdsOf ==
    [chatData \in UpdateInputs |->
        [b \in DOMAIN UpdateBatchesOf[chatData] |-> IdsOf(UpdateBatchesOf[chatData][b])]]
RequestIds(k) == BatchIdsOf[update.chatData][update.log[k].batch]

\* no batch holds an id twice, no two batches share an id
DistinctIdsOf ==
    [chatData \in UpdateInputs |->
        LET bs == UpdateBatchesOf[chatData]
        IN  /\ \A b \in DOMAIN bs : Cardinality(BatchIdsOf[chatData][b]) = Len(bs[b])
            /\ \A b1, b2 \in DOMAIN bs :
                  b1 # b2 => BatchIdsOf[chatData][b1] \cap BatchIdsOf[chatData][b2] = {}]

\* the chat sent for an id is the first chat of chatData with that id
KeepsFirstOf ==
    [chatData \in UpdateInputs |->
        LET bs == UpdateBatchesOf[chatData]
        IN  \A b \in DOMAIN bs : \A j \in DOMAIN bs[b] :
               \E k \in DOMAIN chatData :
                  /\ chatData[k] = bs[b][j]
                  /\ \A h \in 1..(k - 1) : chatData[h].contactId # bs[b][j].contactId]

RequestSizesBounded ==
    \A k \in Requests :
        /\ update.log[k].batch \in DOMAIN updateBatches
        /\ Len(updateBatches[update.log[k].batch]) \in 1..UpdateBatchSize

MaxSendsPerBatch == DefaultMaxRetries + 1

SucceededBatches == { update.log[k].batch : k \in UpdateLogAt("response") }

RECURSIVE SizeOfBatches(_, _)
SizeOfBatches(bs, S) ==
    IF S = {} THEN 0
    ELSE LET b == CHOOSE x \in S : TRUE IN Len(bs[b]) + SizeOfBatches(bs, S \ {b})

Creations == UpdateLogAt("create")
Resends == { k \in Requests : update.log[k].arg = "resend" }
MissingProperty(k) ==
    update.log[k].ev = "error" /\ isMissingPropertyError(update.log[k].arg)

\* C27: in the version that creates missing properties,
\* createHubspotCustomProperties is invoked at most once per call, and only
\* for a batch whose request failed with the missing-property error; a batch is
\* re-sent at most once after the creation; a later batch that fails with the
\* same error is skipped without another creation
C27_PropertiesCreatedOnce ==
    UpdateRunning =>
        /\ Cardinality(Creations) <= 1
        /\ \A k \in Creations :
              /\ update.impl = "hubspot_props"
              /\ k > 1 /\ MissingProperty(k - 1)
              /\ update.log[k - 1].batch = update.log[k].batch
        /\ \A b \in DOMAIN updateBatches : Cardinality(Resends \cap RequestsOf(b)) <= 1
        /\ \A k \in Resends :
              \E c \in Creations : c < k /\ update.log[c].batch = update.log[k].batch
        /\ \A c \in Creations : \A k \in UpdateLogAt("error") :
              (k > c /\ update.log[k].batch > update.log[c].batch) =>
                  (k = Len(update.log) \/ update.log[k + 1].ev # "create")

C27_Witness ==
    /\ UpdateSettled
    /\ \E c \in Creations :
          /\ update.log[c].batch = 1
          /\ Cardinality({ k \in UpdateLogAt("error") :
                             update.log[k].batch = 2 /\ MissingProperty(k) })
                = DefaultMaxRetries
    /\ Resends \cap RequestsOf(2) = {}

\* C28 (as claimed): after a missing-property error the failing batch is
\* re-sent only if the property creation succeeded (status true); if it
\* failed, the batch is not sent again
C28_ResendOnlyIfCreated ==
    UpdateRunning =>
        \A k \in UpdateLogAt("created") :
            update.log[k].arg = FALSE =>
                ~ \E r \in Resends : r > k /\ update.log[r].batch = update.log[k].batch


\* processDataToBeSyncedWith* has returned the array
ProcessReturned == syncData.pc \in { "sync_loop", "await_batch" } \/ syncData.outcome = "returned"
SyncLogOf(ev, uid) ==
    { k \in DOMAIN syncData.log : syncData.log[k].ev = ev /\ syncData.log[k].uid = uid }
HasToken(conversation) == conversation.access_token # "none"
AllChatsNull(conversation) ==
    \A k \in DOMAIN conversation.chats : conversation.chats[k].contactId = JsNull

\* C29: after processDataToBeSyncedWith* returns, every chat has contactId
\* null or the contact id mapped to its phone (chat_id before '@') by the
\* answer to its own conversation's resolution call; a conversation without
\* access token or whose resolution rejected has all its chats null; every
\* conversation with a token got its resolution call, whatever the others did
C29_ContactIdsAttached ==
    ProcessReturned =>
        \A c \in DOMAIN syncData.conversationSummaryArray :
            LET conversation == syncData.conversationSummaryArray[c]
                answers == SyncLogOf("resolved", conversation.uid)
            IN  /\ \A k \in DOMAIN conversation.chats :
                      conversation.chats[k].contactId \in { JsNull } \cup SyncContactIds
                /\ ~ HasToken(conversation) =>
                      answers = {} /\ AllChatsNull(conversation)
                /\ HasToken(conversation) =>
                      /\ Cardinality(answers) = 1
                      /\ \A a \in answers :
                            LET answer == syncData.log[a].arg
                            IN  IF answer.kind = "object"
                                THEN \A k \in DOMAIN conversation.chats :
                                        LET chat == conversation.chats[k]
                                            phone == SubSeq(chat.chat_id, 1,
                                                            Len(chat.chat_id) - Len(ChatIdSuffix))
                                        IN  IF phone \in DOMAIN answer.map
                                            THEN chat.contactId = answer.map[phone].contactId
                                            ELSE chat.contactId = JsNull
                                ELSE AllChatsNull(conversation)

C29_Witness ==
    /\ ProcessReturned
    /\ LET array == syncData.conversationSummaryArray
       IN  /\ HasToken(array[1]) /\ array[1].chats # << >>
           /\ \E a \in SyncLogOf("resolved", 1) : syncData.log[a].arg.kind = "thrown"
           /\ HasToken(array[2]) /\ Len(array[2].chats) = MaxChats
           /\ array[2].chats[1].contactId \in SyncContactIds
           /\ array[2].chats[2].contactId = JsNull

\* C30: the batch update is invoked only for conversations that have an
\* access token and at least one chat with a non-null contactId, with exactly
\* those chats; when the sync returns, every such conversation got its update
\* call, whether or not the update of an earlier uid was rejected
C30_UpdatesOnlyWithContacts ==
    /\ \A k \in DOMAIN syncData.log :
          syncData.log[k].ev = "update" =>
              LET conversation == syncData.conversationSummaryArray[syncData.log[k].uid]
              IN  /\ HasToken(conversation)
                  /\ syncData.log[k].arg # << >>
                  /\ syncData.log[k].arg =
                        SelectSeq(conversation.chats, LAMBDA chat : chat.contactId # JsNull)
                  /\ Cardinality(SyncLogOf("update", conversation.uid)) = 1
    /\ syncData.outcome = "returned" =>
          \A c \in DOMAIN syncData.conversationSummaryArray :
              LET conversation == syncData.conversationSummaryArray[c]
              IN  (HasToken(conversation) /\ ~ AllChatsNull(conversation)) =>
                      SyncLogOf("update", conversation.uid) # {}

C30_Witness ==
    /\ syncData.outcome = "returned"
    /\ \E k \in SyncLogOf("updated", 1) : syncData.log[k].arg = "rejected"
    /\ \E k \in SyncLogOf("update", 2) :
          Len(syncData.log[k].arg) < Len(syncData.conversationSummaryArray[2].chats)


(***************************************************************************)
(* Vocabulary of the properties of extractDataFromActiveUsers              *)
(***************************************************************************)
ExtractLogOf(ev, b) ==
    { k \in DOMAIN extract.log : extract.log[k].ev = ev /\ extract.log[k].batch = b }
ExtractReturned == extract.pc = "done" /\ extract.outcome.kind = "returned"
NumUserBatches ==
    (Len(extract.activeUsersWithScalerPlan) + extract.batchSize - 1) \div extract.batchSize

\* the rows of the batches 1..b whose query succeeded, in batch order
RECURSIVE RowsUpTo(_)
RowsUpTo(b) ==
    IF b = 0 THEN << >>
    ELSE RowsUpTo(b - 1)
         \o (IF ExtractLogOf("rows", b) = {} THEN << >>
             ELSE extract.log[CHOOSE k \in ExtractLogOf("rows", b) : TRUE].arg)

\* C31: every query asks for at most batchSize workspaces, those of its batch
\* of users; a failing query does not abort the extraction: when the function
\* returns, every batch was queried once, and conversationSummary is the
\* concatenation, in batch order, of the rows of the batches whose query succeeded
C31_RowsOfSucceededBatches ==
    /\ \A k \in DOMAIN extract.log :
          extract.log[k].ev = "query" =>
              LET b == extract.log[k].batch
                  users == extract.activeUsersWithScalerPlan
                  asked == { extract.log[k].arg[j] : j \in DOMAIN extract.log[k].arg }
              IN  /\ Len(extract.log[k].arg) \in 1..extract.batchSize
                  /\ asked = { users[j].workspace_id :
                                 j \in { h \in DOMAIN users :
                                           (h - 1) \div extract.batchSize = b - 1 } }
    /\ ExtractReturned =>
          /\ \A b \in 1..NumUserBatches :
                /\ Cardinality(ExtractLogOf("query", b)) = 1
                /\ Cardinality(ExtractLogOf("rows", b)) + Cardinality(ExtractLogOf("error", b)) = 1
          /\ extract.outcome.conversationSummary = RowsUpTo(NumUserBatches)

C31_Witness ==
    /\ ExtractReturned
    /\ extract.batchSize = DefaultBatchSize
    /\ NumUserBatches = 3
    /\ ExtractLogOf("error", 2) # {}
    /\ \E k \in ExtractLogOf("rows", 1) : Len(extract.log[k].arg) = MaxRows
    /\ \E k \in ExtractLogOf("rows", 3) : Len(extract.log[k].arg) = 1
    /\ Len(extract.outcome.conversationSummary) = MaxRows + 1


(***************************************************************************)
(* Vocabulary of the properties of the token refresh                       *)
(***************************************************************************)
\* the accessToken argument: the token of the first request of the call, which
\* is sent before any assignment to accessToken
OriginalToken ==
    log[CHOOSE k \in EventsAt("search") : \A q \in EventsAt("search") : k <= q].tok
\* a search sent right after a successful refresh: the retry of the chunk
IsRetrySearch(k) == k > 1 /\ log[k - 1].ev = "refresh_ok"
\* the answers to such retries: a refresh-and-retry has succeeded
SucceededRetries ==
    { k \in EventsAt("ok") : k > 1 /\ log[k - 1].ev = "search" /\ IsRetrySearch(k - 1) }
\* the token of the last refresh-and-retry that succeeded before position k
TokenInForce(k) ==
    LET before == { r \in SucceededRetries : r < k }
    IN  IF before = {} THEN OriginalToken
        ELSE log[CHOOSE r \in before : \A q \in before : q <= r].tok

\* C32: in the HubSpot resolution with token refresh, the first request of a
\* chunk carries the token of the last refresh-and-retry that succeeded
\* before it, never the original one once such a retry has succeeded, and the
\* original token before any; the retry itself carries the token just obtained
C32_RefreshedTokenForLaterChunks ==
    impl = "hubspot_refresh" =>
        \A k \in EventsAt("search") :
            IF IsRetrySearch(k)
            THEN log[k].tok = log[k - 1].tok /\ log[k].tok # OriginalToken
            ELSE /\ log[k].tok = TokenInForce(k)
                 /\ (\E r \in SucceededRetries : r < k) => log[k].tok # OriginalToken

C32_Witness ==
    /\ impl = "hubspot_refresh"
    /\ \E r \in SucceededRetries : \E k \in EventsAt("search") :
          /\ k > r /\ ~ IsRetrySearch(k)
          /\ log[k].chunk > log[r].chunk
          /\ log[k].tok = log[r].tok
    /\ \E k \in EventsAt("search") : log[k].tok = OriginalToken

(***************************************************************************)
(* C33  A phone is mapped to a contact only if some phone field of that    *)
(* contact equals one of the phone's variations exactly or shares with it  *)
(* the same non-empty digit string; a contact whose phone fields contain   *)
(* no digits is never matched to a phone whose variations contain no       *)
(* digits.                                                                 *)
(***************************************************************************)
SharesDigits(contactPhone, variation) ==
    /\ DigitsOnly(contactPhone) # << >>
    /\ DigitsOnly(contactPhone) = DigitsOnly(variation)

JustifiedMatch(contact, variations) ==
    \E v \in 1..Len(variations) : \E f \in 1..Len(contactPhones(contact)) :
        \/ contactPhones(contact)[f] = variations[v]
        \/ SharesDigits(contactPhones(contact)[f], variations[v])

C33_MatchNeedsSharedDigits ==
    matchStep.pc = "returned" =>
        \A phone \in DOMAIN matchStep.chatIdToContactIdMap :
            JustifiedMatch(matchStep.chatIdToContactIdMap[phone].contact, VariationsOf[phone])

(***************************************************************************)
(* C34  In Zoho resolution every composite request envelope holds at most  *)
(* 5 sub-requests, one per valid phone of the chunk, and the map entry     *)
(* written for a phone is derived only from the sub-response to that       *)
(* phone's own criteria (response index i belongs to the phone whose       *)
(* sub-request was at index i), also when the chunk contains invalid       *)
(* phones that produced no sub-request.                                    *)
(***************************************************************************)
ValidPhonesOf(phoneChunk) == SelectSeq(phoneChunk, IsValidPhone)

ValidInputPhones ==
    { phoneNumbers[k] : k \in { j \in DOMAIN phoneNumbers : IsValidPhone(phoneNumbers[j]) } }

\* the envelope of an answered search holds one sub-request per valid phone, in order
EnvelopeOfChunk(r) ==
    LET valid == ValidPhonesOf(ZohoChunksOf[phoneNumbers][responses[r].chunk])
        requests == responses[r].requests
    IN  /\ Len(requests) <= ZohoChunkSize
        /\ Len(requests) = Len(valid)
        /\ \A k \in DOMAIN requests : requests[k].criteria = VariationsOf[valid[k]]

\* the sub-responses with data that answer the criteria of the phone: << response, index >>
HitsOf(phone) ==
    { h \in (DOMAIN responses) \X (1..ZohoChunkSize) :
        /\ h[2] <= Len(responses[h[1]].requests)
        /\ responses[h[1]].requests[h[2]].criteria = VariationsOf[phone]
        /\ responses[h[1]].subResponses[h[2]] # ZohoMiss }

LastHit(phone) ==
    CHOOSE h \in HitsOf(phone) :
        \A g \in HitsOf(phone) : g[1] < h[1] \/ (g[1] = h[1] /\ g[2] <= h[2])

C34_ZohoResponseAttribution ==
    impl = "zoho" =>
        /\ \A e \in DOMAIN log : log[e].ev = "search" => log[e].arg <= ZohoChunkSize
        /\ \A r \in DOMAIN responses : EnvelopeOfChunk(r)
        /\ DOMAIN chatIdToContactIdMap \subseteq ValidInputPhones
        /\ \A phone \in ValidInputPhones :
              IF HitsOf(phone) = {}
              THEN phone \notin DOMAIN chatIdToContactIdMap
              ELSE /\ phone \in DOMAIN chatIdToContactIdMap
                   /\ chatIdToContactIdMap[phone] =
                          MapEntry(responses[LastHit(phone)[1]].subResponses[LastHit(phone)[2]])

\* a returned call whose first chunk is [US, null, "status", "", IN]: the third
\* sub-response carries a contact and is written under the Indian number, the
\* fifth phone of the chunk
C34_Witness ==
    /\ impl = "zoho" /\ pc = "returned"
    /\ Len(phoneNumbers) >= ZohoChunkSize
    /\ SubSeq(phoneNumbers, 1, ZohoChunkSize) = << UsRaw, JsNull, StatusRaw, EmptyString, InRaw >>
    /\ \E r \in DOMAIN responses :
          /\ responses[r].chunk = 1
          /\ Len(responses[r].requests) = 3
          /\ responses[r].subResponses[3] # ZohoMiss
          /\ responses[r].subResponses[2] = ZohoMiss
    /\ InRaw \in DOMAIN result.map
    /\ StatusRaw \notin DOMAIN result.map

=============================================================================
